---- MODULE Spec2Model ----
(***************************************************************************)
(* InfraScan: the change-triggered submission codec (task / submission),   *)
(* the static-hardware change-detection cache (StaticCacheManager) and the *)
(* multi-format validator (audit).                                         *)
(*                                                                         *)
(* Representation.  JavaScript values are tagged records: t is the result  *)
(* of the value's run-time type (with "null" kept apart from "object"),    *)
(* v the payload.  String contents are sequences of UTF-16 code units.     *)
(* A string that holds JSON text is represented by the value the text      *)
(* denotes (field json); its length is computed from that value the way    *)
(* JSON.stringify lays it out.  Time is counted in seconds: the code's     *)
(* millisecond constants are divided by 1000, and a Date.now() value is    *)
(* tagged ms so that its printed width counts the three further digits.    *)
(***************************************************************************)
EXTENDS Integers, Sequences, FiniteSets, TLC

VARIABLES now, round, phase, hw, cacheFile, store, lastCheck, sent, payload,
          auditIn, verdict, owed, distributed, healthData, uptimeStore, carried,
          calls

vars == <<now, round, phase, hw, cacheFile, store, lastCheck, sent, payload,
          auditIn, verdict, owed, distributed, healthData, uptimeStore,
          carried, calls>>

-----------------------------------------------------------------------------
(* JavaScript values                                                       *)

Undef == [t |-> "undefined"]
Null == [t |-> "null"]
Num(n) == [t |-> "number", v |-> n]
Ms(n) == [t |-> "number", v |-> n, ms |-> TRUE]
Str(s) == [t |-> "string", v |-> s]
Bool(b) == [t |-> "boolean", v |-> b]
Obj(f) == [t |-> "object", v |-> f]
JsonText(x) == [t |-> "string", json |-> x]

TypeOf(x) == IF x.t = "null" THEN "object" ELSE x.t

IsJsonText(x) == x.t = "string" /\ "json" \in DOMAIN x

\* x.k: undefined for a missing property and for a property of a primitive.
\* (Reading a property of null or undefined throws; callers test Nullish first.)
Get(x, k) == IF x.t = "object" /\ k \in DOMAIN x.v THEN x.v[k] ELSE Undef

Nullish(x) == x.t \in {"null", "undefined"}

Min(a, b) == IF a < b THEN a ELSE b

Abs(a) == IF a < 0 THEN 0 - a ELSE a

RECURSIVE DigitsLen(_)
DigitsLen(n) == IF n < 0 THEN 1 + DigitsLen(0 - n)
                ELSE IF n < 10 THEN 1 ELSE 1 + DigitsLen(n \div 10)

\* JSON.stringify's quoting of one UTF-16 code unit: width in code units.
EscWidth(c) == IF c \in {34, 92} THEN 2
               ELSE IF c \in {8, 9, 10, 12, 13} THEN 2
               ELSE IF c < 32 THEN 6
               ELSE 1

\* The same code unit's width in UTF-8 bytes once quoted.
Utf8Width(c) == IF c < 128 THEN EscWidth(c)
                ELSE IF c < 2048 THEN 2
                ELSE 3

RECURSIVE SumWidth(_, _)
SumWidth(s, bytes) ==
  IF s = <<>> THEN 0
  ELSE (IF bytes THEN Utf8Width(Head(s)) ELSE EscWidth(Head(s)))
       + SumWidth(Tail(s), bytes)

\* Keys JSON.stringify writes: own properties whose value is not undefined.
JsonKeys(x) == {k \in DOMAIN x.v : x.v[k].t # "undefined"}

\* Size of JSON.stringify(x): in UTF-16 code units (the string's .length) when
\* bytes is FALSE, in UTF-8 bytes when it is TRUE.
RECURSIVE JsonSize(_, _)
RECURSIVE JsonSizeProps(_, _, _)
JsonSizeProps(x, ks, bytes) ==
  IF ks = {} THEN 0
  ELSE LET k == CHOOSE q \in ks : TRUE
       IN  Len(k) + 3 + JsonSize(x.v[k], bytes)
           + (IF ks = {k} THEN 0 ELSE 1)
           + JsonSizeProps(x, ks \ {k}, bytes)
JsonSize(x, bytes) ==
  CASE x.t = "number" ->
         DigitsLen(x.v) + (IF "ms" \in DOMAIN x /\ x.v # 0 THEN 3 ELSE 0)
    [] x.t = "string" ->
         IF IsJsonText(x) THEN 2 + JsonSize(x.json, bytes)
         ELSE 2 + SumWidth(x.v, bytes)
    [] x.t = "boolean" -> IF x.v THEN 4 ELSE 5
    [] x.t = "null" -> 4
    [] x.t = "object" -> 2 + JsonSizeProps(x, JsonKeys(x), bytes)
    [] OTHER -> 0

\* JSON.parse(JSON.stringify(x)): properties holding undefined are dropped.
RECURSIVE JsonValue(_)
JsonValue(x) ==
  IF x.t = "object"
  THEN Obj([k \in JsonKeys(x) |-> JsonValue(x.v[k])])
  ELSE x

JSONstringify(x) == JsonText(JsonValue(x))

\* string.length
Length(s) == IF IsJsonText(s) THEN JsonSize(s.json, FALSE) ELSE Len(s.v)

\* Buffer.byteLength(s, "utf8"): bytes on the wire
ByteLength(s) == IF IsJsonText(s) THEN JsonSize(s.json, TRUE)
                 ELSE SumWidth(s.v, TRUE)

\* Boolean(x)
Truthy(x) ==
  CASE x.t = "undefined" -> FALSE
    [] x.t = "null" -> FALSE
    [] x.t = "boolean" -> x.v
    [] x.t = "number" -> x.v # 0
    [] x.t = "string" -> IF IsJsonText(x) THEN TRUE ELSE x.v # <<>>
    [] OTHER -> TRUE

\* a || b
OrElse(a, b) == IF Truthy(a) THEN a ELSE b

\* a === b
StrictEq(a, b) == a.t = b.t /\ a = b

\* s.substring(0, n)
Substring(s, n) == Str(SubSeq(s.v, 1, Min(n, Len(s.v))))

\* s?.substring(0, n): undefined when s is null or undefined
OptSubstring(s, n) == IF Nullish(s) THEN Undef ELSE Substring(s, n)

IsSpace(c) == c \in {9, 10, 11, 12, 13, 32, 160}

\* s.trim().length === 0
TrimIsEmpty(s) == \A i \in 1..Len(s.v) : IsSpace(s.v[i])

\* s.includes(w)
Includes(s, w) ==
  \E i \in 0..(Len(s.v) - Len(w)) : SubSeq(s.v, i + 1, i + Len(w)) = w

\* ToNumber, as the relational operators apply it; NaN is [nan |-> TRUE].
IsDigits(s) == s # <<>> /\ \A i \in 1..Len(s) : s[i] \in 48..57
RECURSIVE DigitsValue(_)
DigitsValue(s) ==
  IF s = <<>> THEN 0
  ELSE 10 * DigitsValue(SubSeq(s, 1, Len(s) - 1)) + (s[Len(s)] - 48)
ToNumber(x) ==
  CASE x.t = "number" -> [nan |-> FALSE, n |-> x.v]
    [] x.t = "boolean" -> [nan |-> FALSE, n |-> IF x.v THEN 1 ELSE 0]
    [] x.t = "null" -> [nan |-> FALSE, n |-> 0]
    [] x.t = "string" /\ ~IsJsonText(x) /\ TrimIsEmpty(x) -> [nan |-> FALSE, n |-> 0]
    [] x.t = "string" /\ ~IsJsonText(x) /\ IsDigits(x.v) /\ Len(x.v) < 10 ->
         [nan |-> FALSE, n |-> DigitsValue(x.v)]
    [] OTHER -> [nan |-> TRUE, n |-> 0]

\* x < n and x > n against a number literal n: false when x converts to NaN
LessThan(x, n) == LET a == ToNumber(x) IN ~a.nan /\ a.n < n
GreaterThan(x, n) == LET a == ToNumber(x) IN ~a.nan /\ a.n > n

-----------------------------------------------------------------------------
(* String literals of the source, as code units                            *)

S_unknown == <<117, 110, 107, 110, 111, 119, 110>>
S_Unknown == <<85, 110, 107, 110, 111, 119, 110>>
S_HelloWorld == <<72, 101, 108, 108, 111, 44, 32, 87, 111, 114, 108, 100, 33>>
S_Linux == <<76, 105, 110, 117, 120>>
S_macOS == <<109, 97, 99, 79, 83>>
S_Windows == <<87, 105, 110, 100, 111, 119, 115>>
S_x64 == <<120, 54, 52>>
S_arm64 == <<97, 114, 109, 54, 52>>
S_ia32 == <<105, 97, 51, 50>>
S_arm == <<97, 114, 109>>
S_s390x == <<115, 51, 57, 48, 120>>
S_ppc64 == <<112, 112, 99, 54, 52>>

-----------------------------------------------------------------------------
(* HardwareDetection: the snapshots the provider can hand out              *)

\* n copies of code unit c
Rep(c, n) == [i \in 1..n |-> c]

\* StaticHardwareData.  storage.devices is kept as the array's length.
StaticHardwareData(p) ==
  Obj([wanIp |-> p.wanIp,
       lanIp |-> p.lanIp,
       cpu |-> Obj([model |-> p.model, coresPhysical |-> Num(p.cores),
                    coresLogical |-> Num(2 * p.cores)]),
       ram |-> Obj([totalMB |-> Num(p.totalMB), type |-> p.ramType]),
       storage |-> Obj([totalGB |-> Num(p.totalGB), devices |-> Num(p.devices)]),
       gpu |-> Obj([present |-> Bool(Truthy(p.gpuVendor)), vendor |-> p.gpuVendor]),
       os |-> Obj([platform |-> p.platform, isVirtual |-> Bool(FALSE)]),
       network |-> Obj([nicModel |-> p.nicModel]),
       system |-> Obj([arch |-> p.arch, hostname |-> p.hostname,
                       bootUptimeSeconds |-> Num(p.bootUptimeSeconds)])])

S_wan == <<50, 48, 51, 46, 48, 46, 49, 49, 51, 46, 55>>
S_wan2 == <<49, 57, 56, 46, 53, 49, 46, 49, 48, 48, 46, 50, 53, 52>>
S_lan == <<49, 57, 50, 46, 49, 54, 56, 46, 49, 46, 50, 48>>
S_cpu == <<73, 110, 116, 101, 108, 40, 82, 41, 32, 67, 111, 114, 101, 40, 84, 77, 41, 32, 105, 55, 45, 57, 55, 48, 48, 75, 32, 67, 80, 85, 32, 64, 32, 51, 46, 54, 48, 71, 72, 122>>
S_DDR4 == <<68, 68, 82, 52>>
S_NVIDIA == <<78, 86, 73, 68, 73, 65>>
S_eth0 == <<101, 116, 104, 48>>
S_host == <<110, 111, 100, 101, 45, 48, 49>>
S_freebsd == <<102, 114, 101, 101, 98, 115, 100>>
S_mips == <<109, 105, 112, 115>>

\* A 16 GB Linux machine.
BaseSnapshot ==
  StaticHardwareData(
    [wanIp |-> Str(S_wan),
     lanIp |-> Str(S_lan),
     model |-> Str(S_cpu),
     cores |-> 8,
     totalMB |-> 16384,
     ramType |-> Str(S_DDR4),
     totalGB |-> 512,
     devices |-> 2,
     gpuVendor |-> Str(S_NVIDIA),
     platform |-> Str(S_Linux),
     nicModel |-> Str(S_eth0),
     arch |-> Str(S_x64),
     hostname |-> Str(S_host),
     bootUptimeSeconds |-> 1000])

\* The same machine after a memory upgrade from 16 GB to 32 GB.
MoreMemorySnapshot ==
  StaticHardwareData(
    [wanIp |-> Str(S_wan),
     lanIp |-> Str(S_lan),
     model |-> Str(S_cpu),
     cores |-> 8,
     totalMB |-> 32768,
     ramType |-> Str(S_DDR4),
     totalGB |-> 512,
     devices |-> 2,
     gpuVendor |-> Str(S_NVIDIA),
     platform |-> Str(S_Linux),
     nicModel |-> Str(S_eth0),
     arch |-> Str(S_x64),
     hostname |-> Str(S_host),
     bootUptimeSeconds |-> 1000])

\* The same machine after a reboot on another WAN address: only fields that
\* generateDataHash leaves out differ from BaseSnapshot.
RebootedSnapshot ==
  StaticHardwareData(
    [wanIp |-> Str(S_wan2),
     lanIp |-> Str(S_lan),
     model |-> Str(S_cpu),
     cores |-> 8,
     totalMB |-> 16384,
     ramType |-> Str(S_DDR4),
     totalGB |-> 512,
     devices |-> 2,
     gpuVendor |-> Str(S_NVIDIA),
     platform |-> Str(S_Linux),
     nicModel |-> Str(S_eth0),
     arch |-> Str(S_x64),
     hostname |-> Str(S_host),
     bootUptimeSeconds |-> 5])

\* What the probes fall back to when they fail one by one: getWanIp resolves
\* 'unknown', getRamInfo {totalMB: 0}, getStorageInfo {totalGB: 0, devices: []},
\* getGpuInfo {present: false}, getOsInfo {platform: osType}, getNetworkInfo {}.
DegradedSnapshot ==
  StaticHardwareData(
    [wanIp |-> Str(S_unknown),
     lanIp |-> Str(S_unknown),
     model |-> Str(S_Unknown),
     cores |-> 1,
     totalMB |-> 0,
     ramType |-> Undef,
     totalGB |-> 0,
     devices |-> 0,
     gpuVendor |-> Undef,
     platform |-> Str(S_freebsd),
     nicModel |-> Undef,
     arch |-> Str(S_mips),
     hostname |-> Str(S_host),
     bootUptimeSeconds |-> 1000])

\* Labels made of characters JSON.stringify writes as \u00XX: the compact
\* record grows past 512 characters.
ControlCharSnapshot ==
  StaticHardwareData(
    [wanIp |-> Str(S_wan),
     lanIp |-> Str(S_lan),
     model |-> Str(Rep(1, 25)),
     cores |-> 8,
     totalMB |-> 16384,
     ramType |-> Str(Rep(1, 10)),
     totalGB |-> 512,
     devices |-> 2,
     gpuVendor |-> Str(Rep(1, 10)),
     platform |-> Str(S_Linux),
     nicModel |-> Str(Rep(1, 15)),
     arch |-> Str(S_x64),
     hostname |-> Str(Rep(1, 20)),
     bootUptimeSeconds |-> 1000])

\* Labels in a non-Latin script (three UTF-8 bytes per UTF-16 code unit), on a
\* large machine: long numbers, long addresses.
WideCharSnapshot ==
  StaticHardwareData(
    [wanIp |-> Str(Rep(57, 15)),
     lanIp |-> Str(Rep(57, 15)),
     model |-> Str(Rep(20013, 25)),
     cores |-> 128,
     totalMB |-> 1048576,
     ramType |-> Str(Rep(20013, 10)),
     totalGB |-> 100000,
     devices |-> 20,
     gpuVendor |-> Str(Rep(20013, 10)),
     platform |-> Str(S_Windows),
     nicModel |-> Str(Rep(20013, 15)),
     arch |-> Str(S_arm64),
     hostname |-> Str(Rep(20013, 20)),
     bootUptimeSeconds |-> 1000])

Snapshots == <<BaseSnapshot, MoreMemorySnapshot, RebootedSnapshot,
               DegradedSnapshot, ControlCharSnapshot, WideCharSnapshot>>

\* JSON.stringify(value, list): at every depth only the properties named in
\* list are written.
RECURSIVE StringifyWithList(_, _)
StringifyWithList(x, list) ==
  IF x.t = "object"
  THEN Obj([k \in JsonKeys(x) \cap list |-> StringifyWithList(x.v[k], list)])
  ELSE x

generateDataHashWholeSnapshot(data) == JsonText(data)

\* generateDataHash.  The 32-bit fold of the text is a function of the text;
\* the hash is represented by the text it is computed from.
generateDataHash(data) ==
  LET staticFields ==
        Obj([cpu |-> Get(data, "cpu"), ram |-> Get(data, "ram"),
             storage |-> Get(data, "storage"), gpu |-> Get(data, "gpu"),
             os |-> Get(data, "os"), network |-> Get(data, "network"),
             system |-> Obj([arch |-> Get(Get(data, "system"), "arch"),
                             hostname |-> Get(Get(data, "system"), "hostname")])])
  IN  JsonText(StringifyWithList(staticFields, DOMAIN staticFields.v))

-----------------------------------------------------------------------------
(* StaticCacheManager                                                      *)

\* What the environment does to one call: which steps fail.
\*   probe       collectStaticData throws in the try block
\*   probeRetry  collectStaticData throws again in the catch block
\*   hash        generateDataHash throws
\*   read        reading the cache file fails
\*   write       writing the cache file fails
NoFaults == [probe |-> FALSE, probeRetry |-> FALSE, hash |-> FALSE,
             read |-> FALSE, write |-> FALSE]
CacheFaults ==
  <<NoFaults,
    [NoFaults EXCEPT !.probe = TRUE],
    [NoFaults EXCEPT !.probe = TRUE, !.probeRetry = TRUE],
    [NoFaults EXCEPT !.hash = TRUE],
    [NoFaults EXCEPT !.read = TRUE],
    [NoFaults EXCEPT !.write = TRUE],
    [NoFaults EXCEPT !.write = TRUE, !.probeRetry = TRUE]>>

\* loadCachedData: null when the file is missing, unreadable or not JSON.
loadCachedDataIgnoresReadFailure(file, readFails) ==
  IF file.t = "undefined" THEN Null
  ELSE IF IsJsonText(file) THEN file.json
  ELSE Null
loadCachedData(file, readFails) ==
  IF file.t = "undefined" THEN Null
  ELSE IF readFails THEN Null
  ELSE IF IsJsonText(file) THEN file.json
  ELSE Null

\* The file saveCachedData writes: the whole entry, replacing what was there.
saveCachedDataStaleHash(data, clock) ==
  JSONstringify(Obj([data |-> data, hash |-> JsonText(Null),
                     timestamp |-> Ms(clock)]))
saveCachedData(data, clock) ==
  JSONstringify(Obj([data |-> data, hash |-> generateDataHash(data),
                     timestamp |-> Ms(clock)]))

\* One comparison of identifyChanges: (old.f || dflt) !== (new.f || dflt)
Differs(old, new, group, field, dflt) ==
  ~StrictEq(OrElse(Get(Get(old, group), field), dflt),
            OrElse(Get(Get(new, group), field), dflt))

BothHave(old, new, group) ==
  Truthy(Get(old, group)) /\ Truthy(Get(new, group))

\* identifyChanges: the labels of the entries pushed, in order.
identifyChanges(old, new) ==
  LET Entry(cond, label) == IF cond THEN <<label>> ELSE <<>>
  IN  Entry(BothHave(old, new, "cpu")
              /\ Differs(old, new, "cpu", "model", Str(<<>>)), "CPU Model")
   \o Entry(BothHave(old, new, "cpu")
              /\ Differs(old, new, "cpu", "coresPhysical", Num(0)), "CPU Cores")
   \o Entry(BothHave(old, new, "ram")
              /\ Differs(old, new, "ram", "totalMB", Num(0)), "RAM")
   \o Entry(BothHave(old, new, "ram")
              /\ Differs(old, new, "ram", "type", Str(<<>>)), "RAM Type")
   \o Entry(BothHave(old, new, "storage")
              /\ Differs(old, new, "storage", "totalGB", Num(0)), "Storage")
   \o Entry(BothHave(old, new, "storage")
              /\ Differs(old, new, "storage", "devices", Num(0)), "Storage Devices")
   \o Entry(BothHave(old, new, "gpu")
              /\ Differs(old, new, "gpu", "present", Bool(FALSE)), "GPU")
   \o Entry(BothHave(old, new, "gpu")
              /\ Truthy(Get(Get(old, "gpu"), "present"))
              /\ Truthy(Get(Get(new, "gpu"), "present"))
              /\ Differs(old, new, "gpu", "model", Str(<<>>)), "GPU Model")
   \o Entry(BothHave(old, new, "os")
              /\ Differs(old, new, "os", "platform", Str(<<>>)), "OS Platform")
   \o Entry(BothHave(old, new, "os")
              /\ Differs(old, new, "os", "distro", Str(<<>>)), "OS Version")
   \o Entry(BothHave(old, new, "os")
              /\ Differs(old, new, "os", "isVirtual", Bool(FALSE)), "Virtualization")
   \o Entry(BothHave(old, new, "network")
              /\ Differs(old, new, "network", "nicModel", Str(<<>>)), "Network")
   \o Entry(BothHave(old, new, "system")
              /\ Differs(old, new, "system", "arch", Str(<<>>)), "Architecture")
   \o Entry(BothHave(old, new, "system")
              /\ Differs(old, new, "system", "hostname", Str(<<>>)), "Hostname")

\* A StaticChangeResult, or the exception that left the call.
ChangeResult(hasChanged, currentData, previousData, reason, changes) ==
  [raised |-> FALSE, hasChanged |-> hasChanged, currentData |-> currentData,
   previousData |-> previousData, reason |-> reason, changes |-> changes]
Raised ==
  [raised |-> TRUE, hasChanged |-> FALSE, currentData |-> Undef,
   previousData |-> Undef, reason |-> "raised", changes |-> <<>>]

\* The catch block of checkForStaticChanges: the snapshot is collected once
\* more, outside any try block.
CatchOutcomeRethrows(current, file, f) ==
  [result |-> Raised, file |-> file]
CatchOutcome(current, file, f) ==
  [result |-> IF f.probeRetry THEN Raised
              ELSE ChangeResult(TRUE, current, Undef,
                                "Error checking cache - assuming changed", <<>>),
   file |-> file]

\* The branch of checkForStaticChanges for a missing cache entry
FirstRunSavesNothing(current, file, f, clock) ==
  IF f.write THEN CatchOutcome(current, file, f)
  ELSE [result |-> ChangeResult(TRUE, current, Undef,
                                "First run - no previous data", <<>>),
        file |-> file]
FirstRun(current, file, f, clock) ==
  IF f.write THEN CatchOutcome(current, file, f)
  ELSE [result |-> ChangeResult(TRUE, current, Undef,
                                "First run - no previous data", <<>>),
        file |-> saveCachedData(current, clock)]

\* The branches of checkForStaticChanges for an entry that was read
CompareHashes(current, cachedData, file, f, clock) ==
  IF ~StrictEq(generateDataHash(current), Get(cachedData, "hash"))
  THEN IF f.write THEN CatchOutcome(current, file, f)
       ELSE [result |-> ChangeResult(TRUE, current, Get(cachedData, "data"),
                                     "Hardware changes detected",
                                     identifyChanges(Get(cachedData, "data"), current)),
             file |-> saveCachedData(current, clock)]
  ELSE [result |-> ChangeResult(FALSE, current, Get(cachedData, "data"),
                                "No hardware changes detected", <<>>),
        file |-> file]

\* checkForStaticChanges: the result handed to the caller and the cache file
\* the call leaves behind.  current is what collectStaticData returns.
checkForStaticChanges(current, file, f, clock) ==
  LET cachedData == loadCachedData(file, f.read)
  IN  IF f.probe \/ f.hash THEN CatchOutcome(current, file, f)
      ELSE IF ~Truthy(cachedData) THEN FirstRun(current, file, f, clock)
      ELSE CompareHashes(current, cachedData, file, f, clock)

\* forceRefresh: collect, save, and hand the exception on when either fails.
forceRefreshDataOnly(current, file, f, clock) ==
  IF f.probe \/ f.hash \/ f.write THEN [raised |-> TRUE, file |-> file]
  ELSE [raised |-> FALSE, file |-> JSONstringify(Obj([data |-> current]))]
forceRefresh(current, file, f, clock) ==
  IF f.probe \/ f.hash \/ f.write THEN [raised |-> TRUE, file |-> file]
  ELSE [raised |-> FALSE, file |-> saveCachedData(current, clock)]

\* clearCache: unlink the file when it exists.
clearCache(file, unlinkFails) ==
  IF file.t = "undefined" THEN [raised |-> FALSE, file |-> file]
  ELSE IF unlinkFails THEN [raised |-> TRUE, file |-> file]
  ELSE [raised |-> FALSE, file |-> Undef]

-----------------------------------------------------------------------------
(* Dates                                                                   *)

SecondsPerDay == 86400

\* The calendar date of a day number (days since 1970-01-01), proleptic
\* Gregorian, as new Date(ms).toISOString() computes it.
CivilFromDays(days) ==
  LET z == days + 719468
      era == z \div 146097
      doe == z - era * 146097
      yoe == (doe - doe \div 1460 + doe \div 36524 - doe \div 146096) \div 365
      doy == doe - (365 * yoe + yoe \div 4 - yoe \div 100)
      mp == (5 * doy + 2) \div 153
      d == doy - (153 * mp + 2) \div 5 + 1
      m == IF mp < 10 THEN mp + 3 ELSE mp - 9
      y == yoe + era * 400 + (IF m <= 2 THEN 1 ELSE 0)
  IN  [year |-> y, month |-> m, day |-> d]

\* The day number of a calendar date; month and day may overflow their range
\* the way the arguments of new Date(y, m, d) and Date.UTC do.
DaysFromCivil(year, month, day) ==
  LET y0 == year + (month - 1) \div 12
      m0 == ((month - 1) % 12) + 1
      y == IF m0 <= 2 THEN y0 - 1 ELSE y0
      era == y \div 400
      yoe == y - era * 400
      doy == (153 * (IF m0 > 2 THEN m0 - 3 ELSE m0 + 9) + 2) \div 5
      doe == yoe * 365 + yoe \div 4 - yoe \div 100 + doy
  IN  era * 146097 + doe - 719468 + (day - 1)

Digit(n) == 48 + n

\* new Date(seconds * 1000).toISOString().split('T')[0]
ISODate(seconds) ==
  LET c == CivilFromDays(seconds \div SecondsPerDay)
  IN  Str(<<Digit(c.year \div 1000), Digit((c.year \div 100) % 10),
            Digit((c.year \div 10) % 10), Digit(c.year % 10), 45,
            Digit(c.month \div 10), Digit(c.month % 10), 45,
            Digit(c.day \div 10), Digit(c.day % 10)>>)

-----------------------------------------------------------------------------
(* UptimeTracker: uptime-tracker.ts                                        *)

\* n.toString() of a non-negative integer
RECURSIVE NumberToString(_)
NumberToString(n) ==
  IF n < 10 THEN <<Digit(n)>> ELSE NumberToString(n \div 10) \o <<Digit(n % 10)>>

\* parseInt of a string the tracker wrote
parseInt(x) == DigitsValue(x.v)

\* The two keys the tracker keeps in the node's store; absent before the
\* first round.
NewUptimeStore == [cumulative_rounds |-> Undef, total_uptime_hours |-> Undef]
UptimeStoreAfter(rounds) ==
  [cumulative_rounds |-> Str(NumberToString(rounds)),
   total_uptime_hours |-> Str(NumberToString(rounds))]

\* The two calls of checkForStaticChanges that may be under way at once:
\* where each stands, what it collected, what it read, what it returned.
Callers == {1, 2}
NotStarted == [pc |-> "idle", current |-> Undef, cached |-> Undef, result |-> Raised]
NoCalls == [c \in Callers |-> NotStarted]

\* The liveness values the node's last two payloads with a liveness value
\* carried, none before the first.
NothingCarried == [previous |-> Undef, latest |-> Undef]

\* What may go wrong in the store during one round of tracking: a storeGet
\* that throws (getRounds, getHours), a storeSet of updateCumulativeStats
\* that throws (setStats names the key), a storeSet of the record list.
NoTrackerFault ==
  [getRounds |-> FALSE, getHours |-> FALSE, setStats |-> "none",
   storeRecord |-> FALSE]
TrackerFaults ==
  <<NoTrackerFault,
    [NoTrackerFault EXCEPT !.getRounds = TRUE],
    [NoTrackerFault EXCEPT !.getHours = TRUE],
    [NoTrackerFault EXCEPT !.setStats = "cumulative_rounds"],
    [NoTrackerFault EXCEPT !.setStats = "total_uptime_hours"],
    [NoTrackerFault EXCEPT !.storeRecord = TRUE]>>

\* getCumulativeRounds, getTotalUptimeHours: 0 for an absent key and for a
\* read that throws
getCumulativeRounds(us, getFails) ==
  IF getFails THEN 0
  ELSE IF Truthy(us.cumulative_rounds) THEN parseInt(us.cumulative_rounds) ELSE 0
getTotalUptimeHours(us, getFails) ==
  IF getFails THEN 0
  ELSE IF Truthy(us.total_uptime_hours) THEN parseInt(us.total_uptime_hours) ELSE 0

\* updateCumulativeStats: two writes in one try block, the exception swallowed
updateCumulativeStats(us, totalHours, setFails) ==
  IF setFails = "cumulative_rounds" THEN us
  ELSE IF setFails = "total_uptime_hours"
  THEN [us EXCEPT !.cumulative_rounds = Str(NumberToString(totalHours))]
  ELSE UptimeStoreAfter(totalHours)

\* recordUptime: the seconds of the record, the store it leaves, and whether
\* the exception of storeUptimeRecord left the call.
recordUptime(us, tf) ==
  LET actualUptimeHours == getCumulativeRounds(us, tf.getRounds) + 1
  IN  [raised |-> tf.storeRecord,
       uptimeSeconds |-> actualUptimeHours * 3600,
       store |-> updateCumulativeStats(us, actualUptimeHours, tf.setStats)]

\* getCurrentUptimeSeconds: 0 when the read throws
getCurrentUptimeSeconds(us, getFails) == getTotalUptimeHours(us, getFails) * 3600

-----------------------------------------------------------------------------
(* task(): 1-task.ts                                                       *)

\* getNodeWallet: the environment's wallet string, or 'unknown'.
Wallets == <<Str(Rep(65, 44)), Str(S_unknown), Str(Rep(65, 8))>>

\* UptimeTracker.getCurrentUptimeSeconds at the time of the call.
UptimeValues == <<2592000, 0>>

\* The month's participation percentage getUptimeSubmissionData reports.
MonthlyUptimes == <<50>>

\* Where an operation of the round throws, if anywhere, and whether the
\* storeSet of the catch block throws as well.
TaskFaults ==
  <<[at |-> "none", fallbackFails |-> FALSE],
    [at |-> "recordUptime", fallbackFails |-> FALSE],
    [at |-> "storeTaskSubmissionData", fallbackFails |-> TRUE],
    [at |-> "storeUptimeData", fallbackFails |-> FALSE],
    [at |-> "storeValue", fallbackFails |-> FALSE]>>

Metadata(staticChanged, wallet, clock, roundNumber) ==
  Obj([staticChanged |-> Bool(staticChanged), nodeWallet |-> wallet,
       timestamp |-> Ms(clock), date |-> ISODate(clock),
       roundNumber |-> Num(roundNumber)])

\* The `static` member of TaskSubmissionData built from currentData.
StaticOf(cur) ==
  Obj([wanIp |-> Get(cur, "wanIp"),
       lanIp |-> Get(cur, "lanIp"),
       cpu |-> Obj([model |-> Get(Get(cur, "cpu"), "model"),
                    coresPhysical |-> Get(Get(cur, "cpu"), "coresPhysical"),
                    coresLogical |-> Get(Get(cur, "cpu"), "coresLogical"),
                    frequencyGHz |-> Get(Get(cur, "cpu"), "frequencyGHz")]),
       ram |-> Obj([totalMB |-> Get(Get(cur, "ram"), "totalMB"),
                    type |-> Get(Get(cur, "ram"), "type")]),
       storage |-> Obj([totalGB |-> Get(Get(cur, "storage"), "totalGB"),
                        deviceCount |-> Get(Get(cur, "storage"), "devices")]),
       gpu |-> Obj([present |-> Get(Get(cur, "gpu"), "present"),
                    vendor |-> Get(Get(cur, "gpu"), "vendor"),
                    model |-> Get(Get(cur, "gpu"), "model")]),
       os |-> Obj([platform |-> Get(Get(cur, "os"), "platform"),
                   distro |-> Get(Get(cur, "os"), "distro"),
                   isVirtual |-> Get(Get(cur, "os"), "isVirtual"),
                   virtualPlatform |-> Get(Get(cur, "os"), "virtualPlatform")]),
       network |-> Obj([nicModel |-> Get(Get(cur, "network"), "nicModel")]),
       system |-> Obj([arch |-> Get(Get(cur, "system"), "arch"),
                       hostname |-> Get(Get(cur, "system"), "hostname")])])

\* submissionData of the try block
TaskSubmissionDataWithoutStatic(check, uptime, wallet, clock, roundNumber) ==
  Obj([static |-> Null,
       dynamic |-> Obj([uptime |-> Num(uptime)]),
       metadata |-> Metadata(check.hasChanged, wallet, clock, roundNumber)])
TaskSubmissionData(check, uptime, wallet, clock, roundNumber) ==
  Obj([static |-> IF check.hasChanged THEN StaticOf(check.currentData) ELSE Null,
       dynamic |-> Obj([uptime |-> Num(uptime)]),
       metadata |-> Metadata(check.hasChanged, wallet, clock, roundNumber)])

\* fallbackSubmission of the catch block
FallbackSubmissionFlagSet(wallet, clock, roundNumber) ==
  Obj([static |-> Null,
       dynamic |-> Obj([uptime |-> Num(0)]),
       metadata |-> Metadata(TRUE, wallet, clock, roundNumber)])
FallbackSubmission(wallet, clock, roundNumber) ==
  Obj([static |-> Null,
       dynamic |-> Obj([uptime |-> Num(0)]),
       metadata |-> Metadata(FALSE, wallet, clock, roundNumber)])

\* UptimeTracker.getUptimeSubmissionData
UptimeSubmissionData(uptime, monthly, clock) ==
  JSONstringify(Obj([uptime |-> Num(uptime), monthlyUptime |-> Num(monthly),
                     timestamp |-> Ms(clock), date |-> ISODate(clock)]))

\* The store after task(roundNumber).  check is what checkForStaticChanges
\* gave; fault names the store operation that throws in the try block, and
\* fallbackFails says whether the catch block's storeSet throws as well.
TaskStore(st, check, fault, fallbackFails, uptime, monthly, wallet, clock, roundNumber) ==
  LET data == JSONstringify(TaskSubmissionData(check, uptime, wallet, clock, roundNumber))
      caught == IF fallbackFails THEN st
                ELSE [st EXCEPT !.taskSubmissionData =
                        JSONstringify(FallbackSubmission(wallet, clock, roundNumber))]
      stored1 == [st EXCEPT !.taskSubmissionData = data]
      stored2 == [stored1 EXCEPT !.uptimeData =
                    UptimeSubmissionData(uptime, monthly, clock)]
  IN  IF fault = "recordUptime" \/ check.raised \/ fault = "storeTaskSubmissionData"
      THEN caught
      ELSE IF fault = "storeUptimeData"
      THEN (IF fallbackFails THEN stored1
            ELSE [stored1 EXCEPT !.taskSubmissionData =
                    JSONstringify(FallbackSubmission(wallet, clock, roundNumber))])
      ELSE IF fault = "storeValue"
      THEN (IF fallbackFails THEN stored2
            ELSE [stored2 EXCEPT !.taskSubmissionData =
                    JSONstringify(FallbackSubmission(wallet, clock, roundNumber))])
      ELSE stored2

-----------------------------------------------------------------------------
(* submission()                                                            *)

S_InvalidRoundNumber == <<73, 110, 118, 97, 108, 105, 100, 32, 114, 111, 117, 110, 100, 32, 110, 117, 109, 98, 101, 114>>
S_NoDataAvailable == <<78, 111, 32, 100, 97, 116, 97, 32, 97, 118, 97, 105, 108, 97, 98, 108, 101>>
S_InvalidDataFormat == <<73, 110, 118, 97, 108, 105, 100, 32, 100, 97, 116, 97, 32, 102, 111, 114, 109, 97, 116>>
S_InvalidDataStructure == <<73, 110, 118, 97, 108, 105, 100, 32, 100, 97, 116, 97, 32, 115, 116, 114, 117, 99, 116, 117, 114, 101>>
S_SubmissionFunctionError == <<83, 117, 98, 109, 105, 115, 115, 105, 111, 110, 32, 102, 117, 110, 99, 116, 105, 111, 110, 32, 101, 114, 114, 111, 114>>
S_NoUptimeData == <<78, 111, 32, 117, 112, 116, 105, 109, 101, 32, 100, 97, 116, 97>>
S_InvalidUptimeDataStructure == <<73, 110, 118, 97, 108, 105, 100, 32, 117, 112, 116, 105, 109, 101, 32, 100, 97, 116, 97, 32, 115, 116, 114, 117, 99, 116, 117, 114, 101>>

MaxSubmissionLength == 512

\* Math.round(totalMB / 1024) for a non-negative whole totalMB
RoundedGBNotDivided(totalMB) == totalMB
RoundedGB(totalMB) == (2 * totalMB + 1024) \div 2048

\* createOptimizedSubmission
createOptimizedSubmission(data) ==
  LET static == Get(data, "static")
      meta == Get(data, "metadata")
      wallet == Get(meta, "nodeWallet")
  IN  Obj([d |-> Obj([u |-> Get(Get(data, "dynamic"), "uptime")]),
           m |-> Obj([sc |-> Get(meta, "staticChanged"),
                      t |-> Get(meta, "timestamp"),
                      r |-> Get(meta, "roundNumber")]),
           s |-> IF Truthy(static) /\ Truthy(Get(meta, "staticChanged"))
                 THEN Obj([w |-> Substring(Get(static, "wanIp"), 15),
                           l |-> Substring(Get(static, "lanIp"), 15),
                           c |-> Substring(Get(Get(static, "cpu"), "model"), 25),
                           cp |-> Get(Get(static, "cpu"), "coresPhysical"),
                           r |-> Num(RoundedGB(Get(Get(static, "ram"), "totalMB").v)),
                           rt |-> OrElse(OptSubstring(Get(Get(static, "ram"), "type"), 10),
                                         Str(S_Unknown)),
                           st |-> Get(Get(static, "storage"), "totalGB"),
                           sd |-> Get(Get(static, "storage"), "deviceCount"),
                           g |-> Num(IF Truthy(Get(Get(static, "gpu"), "present")) THEN 1 ELSE 0),
                           gv |-> OrElse(OptSubstring(Get(Get(static, "gpu"), "vendor"), 10),
                                         Str(<<>>)),
                           o |-> Substring(Get(Get(static, "os"), "platform"), 10),
                           v |-> Num(IF Truthy(Get(Get(static, "os"), "isVirtual")) THEN 1 ELSE 0),
                           n |-> OrElse(OptSubstring(Get(Get(static, "network"), "nicModel"), 15),
                                        Str(<<>>)),
                           a |-> Get(Get(static, "system"), "arch"),
                           h |-> Substring(Get(Get(static, "system"), "hostname"), 20)])
                 ELSE Undef,
           w |-> IF Truthy(wallet) /\ ~StrictEq(wallet, Str(S_unknown))
                 THEN Substring(wallet, 44) ELSE Undef])

\* The error records of submission()
ErrorSubmission(message, clock) ==
  JSONstringify(Obj([error |-> Str(message), timestamp |-> Ms(clock),
                     date |-> ISODate(clock)]))
ErrorSubmissionRound(clock, roundNumber) ==
  JSONstringify(Obj([error |-> Str(S_SubmissionFunctionError),
                     timestamp |-> Ms(clock), date |-> ISODate(clock),
                     round |-> Num(roundNumber)]))

\* Which storeGet of submission() throws, if any.
SubmissionFaults == <<"none", "getTaskSubmissionData", "getUptimeData">>

\* submission(roundNumber) of the structured encoder: the string returned.
submissionWithoutCatch(roundNumber, st, fault, clock) ==
  LET taskSubmissionData == st.taskSubmissionData
      optimized == JSONstringify(createOptimizedSubmission(taskSubmissionData.json))
      uptimeData == st.uptimeData
      legacy == JSONstringify(uptimeData.json)
  IN  IF roundNumber < 0
      THEN JSONstringify(Obj([error |-> Str(S_InvalidRoundNumber),
                              timestamp |-> Ms(clock)]))
      ELSE IF fault = "getTaskSubmissionData"
      THEN Undef
      ELSE IF Truthy(taskSubmissionData) /\ IsJsonText(taskSubmissionData)
              /\ Length(optimized) <= MaxSubmissionLength
      THEN optimized
      ELSE IF fault = "getUptimeData"
      THEN Undef
      ELSE IF ~Truthy(uptimeData)
      THEN ErrorSubmission(S_NoDataAvailable, clock)
      ELSE IF ~IsJsonText(uptimeData)
      THEN ErrorSubmission(S_InvalidDataFormat, clock)
      ELSE IF Length(legacy) > MaxSubmissionLength
      THEN JSONstringify(Obj([uptime |-> OrElse(Get(uptimeData.json, "uptime"), Num(0)),
                              timestamp |-> Ms(clock), date |-> ISODate(clock)]))
      ELSE legacy
submission(roundNumber, st, fault, clock) ==
  LET taskSubmissionData == st.taskSubmissionData
      optimized == JSONstringify(createOptimizedSubmission(taskSubmissionData.json))
      uptimeData == st.uptimeData
      legacy == JSONstringify(uptimeData.json)
  IN  IF roundNumber < 0
      THEN JSONstringify(Obj([error |-> Str(S_InvalidRoundNumber),
                              timestamp |-> Ms(clock)]))
      ELSE IF fault = "getTaskSubmissionData"
      THEN ErrorSubmissionRound(clock, roundNumber)
      ELSE IF Truthy(taskSubmissionData) /\ IsJsonText(taskSubmissionData)
              /\ Length(optimized) <= MaxSubmissionLength
      THEN optimized
      ELSE IF fault = "getUptimeData"
      THEN ErrorSubmissionRound(clock, roundNumber)
      ELSE IF ~Truthy(uptimeData)
      THEN ErrorSubmission(S_NoDataAvailable, clock)
      ELSE IF ~IsJsonText(uptimeData)
      THEN ErrorSubmission(S_InvalidDataFormat, clock)
      ELSE IF Length(legacy) > MaxSubmissionLength
      THEN JSONstringify(Obj([uptime |-> OrElse(Get(uptimeData.json, "uptime"), Num(0)),
                              timestamp |-> Ms(clock), date |-> ISODate(clock)]))
      ELSE legacy

\* submission(roundNumber) of 2-submission.ts, the uptime-only encoder: it
\* takes the stored uptimeData only when storeGet hands back an object.
submissionUptime(roundNumber, st, fault, clock) ==
  LET uptimeData == st.uptimeData
  IN  IF roundNumber < 0
      THEN JSONstringify(Obj([error |-> Str(S_InvalidRoundNumber),
                              timestamp |-> Ms(clock)]))
      ELSE IF fault = "getUptimeData"
      THEN ErrorSubmissionRound(clock, roundNumber)
      ELSE IF ~Truthy(uptimeData)
      THEN ErrorSubmission(S_NoUptimeData, clock)
      ELSE IF TypeOf(uptimeData) # "object" \/ uptimeData.t = "null"
      THEN ErrorSubmission(S_InvalidUptimeDataStructure, clock)
      ELSE IF Length(JSONstringify(uptimeData)) > MaxSubmissionLength
      THEN JSONstringify(Obj([uptime |-> OrElse(Get(uptimeData, "uptime"), Num(0)),
                              monthlyUptime |-> OrElse(Get(uptimeData, "monthlyUptime"), Num(0)),
                              timestamp |-> Ms(clock), date |-> ISODate(clock)]))
      ELSE JSONstringify(uptimeData)

-----------------------------------------------------------------------------
(* audit(): 2-submission.ts                                                *)

MaxUptimeSeconds == 31536000
MaxTimeDiff == 21600
OneYear == 31536000
MaxRoundNumber == 1000000

validOSTypes == <<S_Linux, S_macOS, S_Windows>>
validArchs == <<S_x64, S_arm64, S_ia32, S_arm, S_s390x, S_ppc64>>

IsString(x) == x.t = "string" /\ ~IsJsonText(x)

\* isOptimizedSubmission: "true", "false", or "throws" (data.s is null and
\* data.s.w is read).
isOptimizedSubmission(data) ==
  LET d == Get(data, "d")
      m == Get(data, "m")
      s == Get(data, "s")
      head == /\ TypeOf(data) = "object" /\ data.t # "null"
              /\ Truthy(d) /\ TypeOf(d) = "object"
              /\ TypeOf(Get(d, "u")) = "number"
              /\ Truthy(m) /\ TypeOf(m) = "object"
              /\ TypeOf(Get(m, "sc")) = "boolean"
              /\ TypeOf(Get(m, "t")) = "number"
              /\ TypeOf(Get(m, "r")) = "number"
  IN  IF ~head THEN "false"
      ELSE IF s.t = "undefined" THEN "true"
      ELSE IF TypeOf(s) # "object" THEN "false"
      ELSE IF s.t = "null" THEN "throws"
      ELSE IF /\ TypeOf(Get(s, "w")) = "string"
              /\ TypeOf(Get(s, "l")) = "string"
              /\ TypeOf(Get(s, "c")) = "string"
              /\ TypeOf(Get(s, "cp")) = "number"
              /\ TypeOf(Get(s, "r")) = "number"
              /\ TypeOf(Get(s, "rt")) = "string"
              /\ TypeOf(Get(s, "st")) = "number"
              /\ TypeOf(Get(s, "o")) = "string"
              /\ TypeOf(Get(s, "a")) = "string"
           THEN "true" ELSE "false"

\* x.length of a value that is not null or undefined
LengthOf(x) == IF x.t = "string" THEN Num(Length(x)) ELSE Get(x, "length")

\* The static-block checks of validateOptimizedSubmission, in order.
StaticBlockVerdict(s) ==
  LET w == Get(s, "w")
      l == Get(s, "l")
      c == Get(s, "c")
      rt == Get(s, "rt")
      o == Get(s, "o")
      a == Get(s, "a")
      h == Get(s, "h")
  IN  IF ~Truthy(w) \/ Length(w) = 0 \/ StrictEq(w, Str(S_unknown)) THEN "false"
      ELSE IF ~Truthy(l) \/ Length(l) = 0 \/ StrictEq(l, Str(S_unknown)) THEN "false"
      ELSE IF ~Truthy(c) \/ TrimIsEmpty(c) \/ Length(c) > 50 THEN "false"
      ELSE IF LessThan(Get(s, "cp"), 1) \/ GreaterThan(Get(s, "cp"), 256) THEN "false"
      ELSE IF LessThan(Get(s, "r"), 1) \/ GreaterThan(Get(s, "r"), 2048) THEN "false"
      ELSE IF ~Truthy(rt) \/ TrimIsEmpty(rt) THEN "false"
      ELSE IF LessThan(Get(s, "st"), 1) \/ GreaterThan(Get(s, "st"), 100000) THEN "false"
      ELSE IF LessThan(Get(s, "sd"), 1) \/ GreaterThan(Get(s, "sd"), 20) THEN "false"
      ELSE IF ~StrictEq(Get(s, "g"), Num(0)) /\ ~StrictEq(Get(s, "g"), Num(1)) THEN "false"
      ELSE IF ~\E i \in DOMAIN validOSTypes : Includes(o, validOSTypes[i]) THEN "false"
      ELSE IF ~StrictEq(Get(s, "v"), Num(0)) /\ ~StrictEq(Get(s, "v"), Num(1)) THEN "false"
      ELSE IF ~\E i \in DOMAIN validArchs : a.v = validArchs[i] THEN "false"
      ELSE IF ~Truthy(h) THEN "false"
      ELSE IF ~IsString(h) THEN "throws"
      ELSE IF TrimIsEmpty(h) \/ Length(h) > 30 THEN "false"
      ELSE "true"

\* The liveness test both validators apply to a number:
\* u <= 0 || u > 31536000
InvalidUptimeZeroAllowed(u) == u < 0 \/ u > MaxUptimeSeconds
InvalidUptime(u) == u <= 0 \/ u > MaxUptimeSeconds

\* The timestamp test both validators apply:
\* Math.abs(now - t) > maxTimeDiff
TimestampOutOfRangePastOnly(clock, t) == clock - t > MaxTimeDiff
TimestampOutOfRange(clock, t) == Abs(clock - t) > MaxTimeDiff

\* validateOptimizedSubmission, for data that isOptimizedSubmission accepted.
validateOptimizedSubmissionNoConsistency(data, clock) ==
  LET u == Get(Get(data, "d"), "u").v
      t == Get(Get(data, "m"), "t").v
      r == Get(Get(data, "m"), "r").v
      s == Get(data, "s")
      w == Get(data, "w")
      static == IF Truthy(s) /\ TypeOf(s) = "object"
                THEN StaticBlockVerdict(s) ELSE "true"
  IN  IF InvalidUptime(u) THEN "false"
      ELSE IF TimestampOutOfRange(clock, t) THEN "false"
      ELSE IF t > clock + OneYear THEN "false"
      ELSE IF t < clock - OneYear THEN "false"
      ELSE IF r < 0 \/ r > MaxRoundNumber THEN "false"
      ELSE IF static # "true" THEN static
      ELSE IF Truthy(w) /\ (LessThan(LengthOf(w), 32) \/ GreaterThan(LengthOf(w), 44))
      THEN "false"
      ELSE "true"
validateOptimizedSubmission(data, clock) ==
  LET u == Get(Get(data, "d"), "u").v
      sc == Get(Get(data, "m"), "sc")
      t == Get(Get(data, "m"), "t").v
      r == Get(Get(data, "m"), "r").v
      s == Get(data, "s")
      w == Get(data, "w")
      static == IF Truthy(s) /\ TypeOf(s) = "object"
                THEN StaticBlockVerdict(s) ELSE "true"
  IN  IF InvalidUptime(u) THEN "false"
      ELSE IF TimestampOutOfRange(clock, t) THEN "false"
      ELSE IF t > clock + OneYear THEN "false"
      ELSE IF t < clock - OneYear THEN "false"
      ELSE IF r < 0 \/ r > MaxRoundNumber THEN "false"
      ELSE IF Truthy(sc) /\ ~Truthy(s) THEN "false"
      ELSE IF ~Truthy(sc) /\ Truthy(s) THEN "false"
      ELSE IF static # "true" THEN static
      ELSE IF Truthy(w) /\ (LessThan(LengthOf(w), 32) \/ GreaterThan(LengthOf(w), 44))
      THEN "false"
      ELSE "true"

\* isUptimeSubmission
isUptimeSubmission(data) ==
  /\ TypeOf(data) = "object" /\ data.t # "null"
  /\ TypeOf(Get(data, "uptime")) = "number"
  /\ TypeOf(Get(data, "monthlyUptime")) = "number"
  /\ TypeOf(Get(data, "timestamp")) = "number"
  /\ TypeOf(Get(data, "date")) = "string"
  /\ ~Truthy(Get(data, "cpu")) /\ ~Truthy(Get(data, "memory"))
  /\ ~Truthy(Get(data, "storage")) /\ ~Truthy(Get(data, "network"))

\* A date pattern: 0 stands for \d, any other entry for that code unit.
MatchesFormat(s, format) ==
  /\ Len(s) = Len(format)
  /\ \A i \in 1..Len(s) :
       IF format[i] = 0 THEN s[i] \in 48..57 ELSE s[i] = format[i]

FormatISO == <<0, 0, 0, 0, 45, 0, 0, 45, 0, 0>>
FormatUS == <<0, 0, 47, 0, 0, 47, 0, 0, 0, 0>>
FormatUSShort == <<0, 0, 47, 0, 0, 47, 0, 0>>
FormatEuropean == <<0, 0, 45, 0, 0, 45, 0, 0, 0, 0>>
FormatGerman == <<0, 0, 46, 0, 0, 46, 0, 0, 0, 0>>
FormatISOSlash == <<0, 0, 0, 0, 47, 0, 0, 47, 0, 0>>

formats == <<FormatISO, FormatUS, FormatUSShort, FormatEuropean, FormatGerman,
             FormatISOSlash>>

\* isValidDateFormat
isValidDateFormat(dateStr) ==
  \E i \in DOMAIN formats : MatchesFormat(dateStr.v, formats[i])

\* parseInt of the digits s[from..to]
IntAt(s, from, to) == DigitsValue(SubSeq(s, from, to))

\* new Date(year, monthIndex, day).getTime() / 1000 on a host whose local time
\* is UTC; a year 0..99 means 1900 + year.
LocalDate(year, month, day) ==
  [valid |-> TRUE,
   time |-> SecondsPerDay *
            DaysFromCivil(IF year < 100 THEN 1900 + year ELSE year, month, day)]

\* parseFlexibleDate.  The year-first text goes through the ISO parser, which
\* yields an invalid Date for a month outside 1..12 or a day outside 1..31.
parseFlexibleDate(dateStr) ==
  LET s == dateStr.v
  IN  IF MatchesFormat(s, FormatISO)
      THEN LET y == IntAt(s, 1, 4)
               m == IntAt(s, 6, 7)
               d == IntAt(s, 9, 10)
           IN  IF m \in 1..12 /\ d \in 1..31
               THEN [valid |-> TRUE, time |-> SecondsPerDay * DaysFromCivil(y, m, d)]
               ELSE [valid |-> FALSE, time |-> 0]
      ELSE IF MatchesFormat(s, FormatUS)
      THEN LocalDate(IntAt(s, 7, 10), IntAt(s, 1, 2), IntAt(s, 4, 5))
      ELSE IF MatchesFormat(s, FormatUSShort)
      THEN LET y == IntAt(s, 7, 8)
           IN  LocalDate(y + (IF y > 50 THEN 1900 ELSE 2000), IntAt(s, 1, 2), IntAt(s, 4, 5))
      ELSE IF MatchesFormat(s, FormatEuropean)
      THEN LocalDate(IntAt(s, 7, 10), IntAt(s, 4, 5), IntAt(s, 1, 2))
      ELSE IF MatchesFormat(s, FormatGerman)
      THEN LocalDate(IntAt(s, 7, 10), IntAt(s, 4, 5), IntAt(s, 1, 2))
      ELSE IF MatchesFormat(s, FormatISOSlash)
      THEN LocalDate(IntAt(s, 1, 4), IntAt(s, 6, 7), IntAt(s, 9, 10))
      ELSE [valid |-> FALSE, time |-> 0]

MaxDayDiff == 172800

\* isDateConsistentWithTimestamp: an invalid Date compares false.
isDateConsistentAnyDistance(dateStr, timestamp) ==
  parseFlexibleDate(dateStr).valid
isDateConsistentWithTimestamp(dateStr, timestamp) ==
  LET parsedDate == parseFlexibleDate(dateStr)
  IN  parsedDate.valid /\ Abs(timestamp - parsedDate.time) <= MaxDayDiff

\* validateUptimeSubmission, for data that isUptimeSubmission accepted.
validateUptimeSubmission(data, clock) ==
  LET uptime == Get(data, "uptime").v
      monthlyUptime == Get(data, "monthlyUptime").v
      timestamp == Get(data, "timestamp").v
      date == Get(data, "date")
  IN  IF InvalidUptime(uptime) THEN "false"
      ELSE IF monthlyUptime < 0 \/ monthlyUptime > 100 THEN "false"
      ELSE IF TimestampOutOfRange(clock, timestamp) THEN "false"
      ELSE IF ~isValidDateFormat(date) THEN "false"
      ELSE IF ~isDateConsistentWithTimestamp(date, timestamp) THEN "false"
      ELSE IF timestamp > clock + OneYear THEN "false"
      ELSE IF timestamp < clock - OneYear THEN "false"
      ELSE "true"

\* isHardwareSubmission
isHardwareSubmissionAnyRecord(data) ==
  /\ TypeOf(data) = "object" /\ data.t # "null"
  /\ TypeOf(Get(data, "timestamp")) = "number"
  /\ TypeOf(Get(data, "date")) = "string"
isHardwareSubmission(data) ==
  /\ TypeOf(data) = "object" /\ data.t # "null"
  /\ \/ Truthy(Get(data, "cpu")) \/ Truthy(Get(data, "memory"))
     \/ Truthy(Get(data, "storage")) \/ Truthy(Get(data, "network"))
  /\ TypeOf(Get(data, "timestamp")) = "number"
  /\ TypeOf(Get(data, "date")) = "string"

\* validateHardwareSubmission
validateHardwareSubmission(data, clock) ==
  IF Abs(clock - Get(data, "timestamp").v) > MaxTimeDiff THEN "false" ELSE "true"

\* validateStringSubmission
validateStringSubmissionAnyShortText(input) ==
  IF IsJsonText(input) THEN "false"
  ELSE IF input.v = S_HelloWorld THEN "true"
  ELSE IF ~Truthy(input) \/ TrimIsEmpty(input) THEN "false"
  ELSE IF Len(input.v) > MaxSubmissionLength THEN "false"
  ELSE "true"
validateStringSubmission(input) ==
  IF IsJsonText(input) THEN "false"
  ELSE IF input.v = S_HelloWorld THEN "true"
  ELSE IF ~Truthy(input) \/ TrimIsEmpty(input) THEN "false"
  ELSE IF Len(input.v) > MaxSubmissionLength THEN "false"
  ELSE "false"

\* The classification and validation inside audit's inner try block, for a
\* string that JSON.parse accepted.
ValidateParsed(submissionData, clock) ==
  LET optimized == isOptimizedSubmission(submissionData)
  IN  IF optimized = "throws" THEN "throws"
      ELSE IF optimized = "true" THEN validateOptimizedSubmission(submissionData, clock)
      ELSE IF isUptimeSubmission(submissionData)
      THEN validateUptimeSubmission(submissionData, clock)
      ELSE IF isHardwareSubmission(submissionData)
      THEN validateHardwareSubmission(submissionData, clock)
      ELSE "false"

\* audit(submission, roundNumber, submitterKey): "true", "false", or "throws"
\* when an exception leaves the function.  The log line ahead of the try
\* block calls submission?.substring, which is not a function unless
\* input is a string, null or undefined.
auditGuarded(input, roundNumber, submitterKey, clock) ==
  IF ~Truthy(input) \/ TypeOf(input) # "string" THEN "false"
  ELSE IF TypeOf(roundNumber) # "number" \/ LessThan(roundNumber, 0) THEN "false"
  ELSE IF ~Truthy(submitterKey) \/ TypeOf(submitterKey) # "string" THEN "false"
  ELSE IF IsJsonText(input)
  THEN LET inner == ValidateParsed(input.json, clock)
       IN  IF inner = "throws" THEN validateStringSubmission(input) ELSE inner
  ELSE validateStringSubmission(input)
auditOfOwnRoundOnly(input, roundNumber, submitterKey, clock) ==
  IF ~Nullish(input) /\ TypeOf(input) # "string" THEN "throws"
  ELSE IF /\ IsJsonText(input)
          /\ isOptimizedSubmission(input.json) = "true"
          /\ ~StrictEq(Get(Get(input.json, "m"), "r"), roundNumber)
  THEN "false"
  ELSE auditGuarded(input, roundNumber, submitterKey, clock)
audit(input, roundNumber, submitterKey, clock) ==
  IF ~Nullish(input) /\ TypeOf(input) # "string" THEN "throws"
  ELSE auditGuarded(input, roundNumber, submitterKey, clock)

-----------------------------------------------------------------------------
(* distribution(): 4-distribution.ts, and its monitor                      *)

\* Amounts are counted in thousands of base units: a token is 10^9 base units.
REWARD_PER_NODE == 3
TOKEN_DECIMALS == 1000000
REWARD_BASE_UNITS == REWARD_PER_NODE * TOKEN_DECIMALS

\* Math.abs(submitter.stake * 0.7), for a stake that is a multiple of ten
SlashedStake(stake) == Abs((7 * stake) \div 10)

\* DistributionMonitor's constructor
NewHealthData ==
  [monitoring |-> FALSE, lastSuccessfulRound |-> 0 - 1,
   lastSuccessfulTimestamp |-> 0, failedRounds |-> {},
   totalRoundsProcessed |-> 0, alerts |-> <<>>]

\* recordSuccessfulDistribution, recordFailedDistribution (the newest alert
\* comes first)
recordSuccessfulDistribution(h, roundNumber, clock) ==
  [h EXCEPT !.lastSuccessfulRound = roundNumber,
            !.lastSuccessfulTimestamp = clock,
            !.totalRoundsProcessed = @ + 1,
            !.failedRounds = @ \ {roundNumber},
            !.alerts = <<"INFO">> \o @]
recordFailedDistribution(h, roundNumber) ==
  [h EXCEPT !.failedRounds = @ \cup {roundNumber},
            !.totalRoundsProcessed = @ + 1,
            !.alerts = <<"ERROR">> \o @]

\* submitters.filter(...): the submitters with a public key that is not blank
validSubmitters(submitters) ==
  SelectSeq(submitters,
            LAMBDA submitter : /\ Truthy(submitter.publicKey)
                               /\ ~TrimIsEmpty(submitter.publicKey))

\* What the forEach body writes for one submitter
ShareNeverNegative(submitter) ==
  IF submitter.votes > 0 THEN REWARD_BASE_UNITS ELSE 0
Share(submitter) ==
  IF submitter.votes > 0 THEN REWARD_BASE_UNITS
  ELSE IF submitter.votes = 0 THEN 0
  ELSE 0 - SlashedStake(submitter.stake)

\* The distribution list: a later submitter with the same key overwrites an
\* earlier one.
DistributionList(valid) ==
  [k \in {valid[i].publicKey : i \in DOMAIN valid} |->
     Share(valid[CHOOSE i \in DOMAIN valid :
                   /\ valid[i].publicKey = k
                   /\ \A j \in DOMAIN valid : valid[j].publicKey = k => j <= i])]

\* distribution(submitters, bounty, roundNumber): the list returned and the
\* monitor's data afterwards.  Reading the length of a missing submitters
\* argument throws inside the try block.
distribution(submitters, bounty, roundNumber, h, clock) ==
  LET started == [h EXCEPT !.monitoring = TRUE]
  IN  IF submitters.t = "undefined"
      THEN [list |-> <<>>, health |-> recordFailedDistribution(started, roundNumber)]
      ELSE IF Len(submitters.v) = 0 \/ Len(validSubmitters(submitters.v)) = 0
      THEN [list |-> <<>>, health |-> started]
      ELSE [list |-> DistributionList(validSubmitters(submitters.v)),
            health |-> recordSuccessfulDistribution(started, roundNumber, clock)]

\* Before distribution() is called
NotDistributed ==
  [called |-> FALSE, submitters |-> Undef, bounty |-> 0, roundNumber |-> 0,
   list |-> <<>>]

-----------------------------------------------------------------------------
(* The node's rounds                                                       *)

\* 2024-01-08T00:00:00Z, in seconds
T0 == 1704672000
\* seven hours: one tick takes a timestamp out of the validator's window
TickSeconds == 25200
MaxTicks == 1
MaxRound == 1

NotCalled ==
  [called |-> FALSE, before |-> Undef, after |-> Undef, current |-> Undef,
   faults |-> NoFaults, taskFault |-> "none", result |-> Raised]

NoAudit == [input |-> Undef, roundNumber |-> Undef, submitterKey |-> Undef,
            clock |-> 0, own |-> FALSE]

NotSent == [encoder |-> "none", fault |-> "none"]

S_submitter == Rep(66, 44)

\* The round numbers the host starts the node at.
StartRounds == <<0, 1000000>>

HasStaticBlock(p) == IsJsonText(p) /\ Truthy(Get(p.json, "s"))

\* Replacements of the machine's hardware snapshot between rounds, as pairs
\* of positions in Snapshots: a memory upgrade and its reversal, a reboot
\* with a new address, and a machine whose probes start to answer.
HardwareChanges == <<<<1, 2>>, <<2, 1>>, <<1, 3>>, <<4, 1>>>>

Init ==
  /\ now = T0
  /\ \E i \in DOMAIN StartRounds : round = StartRounds[i]
  /\ phase = "idle"
  /\ \E i \in DOMAIN Snapshots : hw = Snapshots[i]
  /\ cacheFile = Undef
  /\ store = [taskSubmissionData |-> Undef, uptimeData |-> Undef]
  /\ lastCheck = NotCalled
  /\ sent = NotSent
  /\ payload = Undef
  /\ auditIn = NoAudit
  /\ verdict = "none"
  /\ owed = 0
  /\ distributed = NotDistributed
  /\ healthData = NewHealthData
  /\ uptimeStore = NewUptimeStore
  /\ carried = NothingCarried
  /\ calls = NoCalls

\* The clock advances.
Tick ==
  /\ phase \in {"idle", "submitted"}
  /\ auditIn = NoAudit
  /\ now < T0 + MaxTicks * TickSeconds
  /\ now' = now + TickSeconds
  /\ UNCHANGED <<round, phase, hw, cacheFile, store, lastCheck, sent,
                 payload, auditIn, verdict, owed,
                 distributed, healthData, uptimeStore, carried,
                 calls>>

\* The machine's hardware, address or boot time changes between rounds.
HardwareChange ==
  /\ phase = "idle"
  /\ auditIn = NoAudit
  /\ \E c \in DOMAIN HardwareChanges :
       /\ hw = Snapshots[HardwareChanges[c][1]]
       /\ hw' = Snapshots[HardwareChanges[c][2]]
  /\ UNCHANGED <<now, round, phase, cacheFile, store, lastCheck, sent,
                 payload, auditIn, verdict, owed,
                 distributed, healthData, uptimeStore, carried,
                 calls>>

\* "{oops": a text that JSON.parse rejects
S_garbage == <<123, 111, 111, 112, 115>>

\* The cache file is damaged between rounds: what is left is not JSON.
CacheCorrupted ==
  /\ phase = "idle"
  /\ auditIn = NoAudit
  /\ IsJsonText(cacheFile)
  /\ cacheFile' = Str(S_garbage)
  /\ UNCHANGED <<now, round, phase, hw, store, lastCheck, sent, payload,
                 auditIn, verdict, owed, distributed, healthData,
                 uptimeStore, carried,
                 calls>>

\* The rounds tried: the plain one (no fault, the first liveness value, the
\* first wallet) and those that differ from it in one input.
OneAtATime(f, tf, u, w) ==
  LET picked == <<f, tf, u, w>>
  IN  Cardinality({k \in DOMAIN picked : picked[k] # 1}) <= 1

\* task(round)
Task ==
  /\ phase = "idle"
  /\ \E f \in DOMAIN CacheFaults, tf \in DOMAIN TaskFaults,
        u \in DOMAIN UptimeValues, m \in DOMAIN MonthlyUptimes,
        w \in DOMAIN Wallets :
       /\ OneAtATime(f, tf, u, w)
       /\ LET fault == TaskFaults[tf]
              called == fault.at # "recordUptime"
              check == checkForStaticChanges(hw, cacheFile, CacheFaults[f], now)
              result == IF called THEN check.result ELSE Raised
          IN  /\ (~called => f = 1)
              /\ cacheFile' = IF called THEN check.file ELSE cacheFile
              /\ lastCheck' = IF called
                              THEN [called |-> TRUE, before |-> cacheFile,
                                    after |-> check.file, current |-> hw,
                                    faults |-> CacheFaults[f],
                                    taskFault |-> fault.at,
                                    result |-> check.result]
                              ELSE [NotCalled EXCEPT !.taskFault = fault.at]
              /\ store' = TaskStore(store, result, fault.at, fault.fallbackFails,
                                    UptimeValues[u], MonthlyUptimes[m], Wallets[w],
                                    now, round)
  /\ phase' = "tasked"
  /\ sent' = NotSent
  /\ payload' = Undef
  /\ auditIn' = NoAudit
  /\ verdict' = "none"
  /\ UNCHANGED <<now, round, hw, owed,
                 distributed, healthData, uptimeStore, carried,
                 calls>>

\* The bookkeeping of a static block that is due: the number of payloads that
\* have gone out without a static block since a check reported a change,
\* 0 when nothing is due.
OwedAfter(p) ==
  IF HasStaticBlock(p) THEN 0
  ELSE IF owed > 0 THEN owed + 1
  ELSE IF lastCheck.called /\ ~lastCheck.result.raised /\ lastCheck.result.hasChanged
  THEN 1
  ELSE 0

\* submission(round), structured encoder
Submission ==
  /\ phase = "tasked"
  /\ \E sf \in DOMAIN SubmissionFaults :
       /\ payload' = submission(round, store, SubmissionFaults[sf], now)
       /\ sent' = [encoder |-> "structured", fault |-> SubmissionFaults[sf]]
  /\ owed' = OwedAfter(payload')
  /\ phase' = "submitted"
  /\ UNCHANGED <<now, round, hw, cacheFile, store, lastCheck, auditIn, verdict,
                 distributed, healthData, uptimeStore, carried,
                 calls>>

\* submission(round), uptime-only encoder
SubmissionUptime ==
  /\ phase = "tasked"
  /\ \E sf \in {1, 3} :
       /\ payload' = submissionUptime(round, store, SubmissionFaults[sf], now)
       /\ sent' = [encoder |-> "uptime", fault |-> SubmissionFaults[sf]]
  /\ owed' = OwedAfter(payload')
  /\ phase' = "submitted"
  /\ UNCHANGED <<now, round, hw, cacheFile, store, lastCheck, auditIn, verdict,
                 distributed, healthData, uptimeStore, carried,
                 calls>>

\* audit(payload, round, submitter) of the node's own payload
AuditOwn ==
  /\ phase = "submitted"
  /\ auditIn' = [input |-> payload, roundNumber |-> Num(round),
                 submitterKey |-> Str(S_submitter), clock |-> now, own |-> TRUE]
  /\ verdict' = audit(payload, Num(round), Str(S_submitter), now)
  /\ phase' = "audited"
  /\ UNCHANGED <<now, round, hw, cacheFile, store, lastCheck, sent, payload, owed,
                 distributed, healthData, uptimeStore, carried,
                 calls>>

\* A static block as a peer's payload carries it
PeerStatic ==
  Obj([w |-> Str(S_wan), l |-> Str(S_lan), c |-> Str(S_cpu), cp |-> Num(8),
       r |-> Num(16), rt |-> Str(S_DDR4), st |-> Num(512), sd |-> Num(1),
       g |-> Num(1), gv |-> Str(S_NVIDIA), o |-> Str(S_Linux), v |-> Num(0),
       n |-> Str(S_eth0), a |-> Str(S_x64), h |-> Str(S_host)])

PeerRecord(u, sc, t, r, s) ==
  Obj([d |-> Obj([u |-> u]), m |-> Obj([sc |-> sc, t |-> t, r |-> r]), s |-> s])


\* What a validator may be handed as a submission at time clock.
AuditInputs(clock) ==
  <<Undef,
    Null,
    Num(12345),
    Bool(TRUE),
    PeerRecord(Num(7200), Bool(FALSE), Ms(clock), Num(1), Undef),
    Str(<<>>),
    Str(S_HelloWorld),
    Str(S_garbage),
    JsonText(Num(123)),
    JsonText(PeerRecord(Num(7200), Bool(FALSE), Ms(clock), Num(1), Undef)),
    JsonText(PeerRecord(Num(7200), Bool(TRUE), Ms(clock), Num(1), PeerStatic)),
    JsonText(PeerRecord(Num(7200), Bool(TRUE), Ms(clock), Num(1), Undef)),
    JsonText(PeerRecord(Num(7200), Bool(FALSE), Ms(clock), Num(1), PeerStatic)),
    JsonText(PeerRecord(Num(7200), Bool(FALSE), Ms(clock), Num(1), Null)),
    JsonText(PeerRecord(Num(7200), Bool(TRUE), Ms(clock), Num(1),
                        Obj([PeerStatic.v EXCEPT !.h = Num(7)])))>>

\* A record of the legacy format
PeerLegacy(uptime, timestamp, date) ==
  Obj([uptime |-> uptime, monthlyUptime |-> Num(50), timestamp |-> timestamp,
       date |-> date])

\* Records of both formats at and around the limits of the liveness value.
LivenessValues == <<0, 0 - 1, 1, 31536000, 31536001>>

LivenessInputs(clock) ==
  [i \in 1..(2 * Len(LivenessValues)) |->
     IF i <= Len(LivenessValues)
     THEN JsonText(PeerRecord(Num(LivenessValues[i]), Bool(FALSE), Ms(clock),
                              Num(1), Undef))
     ELSE JsonText(PeerLegacy(Num(LivenessValues[i - Len(LivenessValues)]),
                              Ms(clock), ISODate(clock)))]

\* Records of both formats stamped just inside, at and just outside six hours
\* before and after the validator's clock.
TimestampOffsets == <<21599, 21600, 21601, 0 - 21599, 0 - 21600, 0 - 21601>>

TimestampInputs(clock) ==
  [i \in 1..(2 * Len(TimestampOffsets)) |->
     IF i <= Len(TimestampOffsets)
     THEN JsonText(PeerRecord(Num(7200), Bool(FALSE),
                              Ms(clock - TimestampOffsets[i]), Num(1), Undef))
     ELSE LET t == clock - TimestampOffsets[i - Len(TimestampOffsets)]
          IN  JsonText(PeerLegacy(Num(7200), Ms(t), ISODate(t)))]

\* Static blocks that differ from PeerStatic in one numeric subfield: a value
\* at or beyond the end of its range, or no value at all.
StaticVariants ==
  <<[PeerStatic.v EXCEPT !.cp = Num(300)],
    [PeerStatic.v EXCEPT !.cp = Num(0)],
    [PeerStatic.v EXCEPT !.cp = Num(1)],
    [PeerStatic.v EXCEPT !.cp = Num(256)],
    [PeerStatic.v EXCEPT !.cp = Num(257)],
    [PeerStatic.v EXCEPT !.cp = Undef],
    [PeerStatic.v EXCEPT !.r = Num(0)],
    [PeerStatic.v EXCEPT !.r = Num(2048)],
    [PeerStatic.v EXCEPT !.r = Num(2049)],
    [PeerStatic.v EXCEPT !.r = Undef],
    [PeerStatic.v EXCEPT !.st = Num(0)],
    [PeerStatic.v EXCEPT !.st = Num(100000)],
    [PeerStatic.v EXCEPT !.st = Num(100001)],
    [PeerStatic.v EXCEPT !.st = Undef],
    [PeerStatic.v EXCEPT !.sd = Num(0)],
    [PeerStatic.v EXCEPT !.sd = Num(20)],
    [PeerStatic.v EXCEPT !.sd = Num(21)],
    [PeerStatic.v EXCEPT !.sd = Undef]>>

StaticInputs(clock) ==
  [i \in DOMAIN StaticVariants |->
     JsonText(PeerRecord(Num(7200), Bool(TRUE), Ms(clock), Num(1),
                         Obj(StaticVariants[i])))]

\* Static blocks that differ from PeerStatic in the platform or the
\* architecture: "GNU/Linux", "freebsd", "mips", "x64-le".
PlatformVariants ==
  <<[PeerStatic.v EXCEPT !.o = Str(<<71, 78, 85, 47>> \o S_Linux)],
    [PeerStatic.v EXCEPT !.o = Str(S_freebsd)],
    [PeerStatic.v EXCEPT !.a = Str(S_mips)],
    [PeerStatic.v EXCEPT !.a = Str(S_x64 \o <<45, 108, 101>>)]>>

PlatformInputs(clock) ==
  [i \in DOMAIN PlatformVariants |->
     JsonText(PeerRecord(Num(7200), Bool(TRUE), Ms(clock), Num(1),
                         Obj(PlatformVariants[i])))]

\* Records of both formats with a round number at and around the limits; the
\* legacy record carries it in a roundNumber field of its own.
RoundValues == <<0 - 1, 0, 1000000, 1000001>>

RoundInputs(clock) ==
  [i \in 1..(2 * Len(RoundValues)) |->
     IF i <= Len(RoundValues)
     THEN JsonText(PeerRecord(Num(7200), Bool(FALSE), Ms(clock),
                              Num(RoundValues[i]), Undef))
     ELSE JsonText(Obj([uptime |-> Num(7200), monthlyUptime |-> Num(50),
                        timestamp |-> Ms(clock), date |-> ISODate(clock),
                        roundNumber |-> Num(RoundValues[i - Len(RoundValues)])]))]

\* Strings that JSON.parse rejects: blanks only, the sentinel with a blank
\* ahead of it, the sentinel in lower case, and 513 letters.
StringInputs ==
  <<Str(<<32, 9, 32>>),
    Str(<<32>> \o S_HelloWorld),
    Str(<<104>> \o SubSeq(S_HelloWorld, 2, 7) \o <<119>> \o SubSeq(S_HelloWorld, 9, 13)),
    Str([i \in 1..(MaxSubmissionLength + 1) |-> 120])>>

\* A compact record of round 7 that names a wallet: 44 times the letter C.
WalletInputs(clock) ==
  <<JsonText(Obj([PeerRecord(Num(7200), Bool(FALSE), Ms(clock), Num(7), Undef).v
                    EXCEPT !.s = Undef] @@ [w |-> Str(Rep(67, 44))]))>>

\* The day of a moment, written by a peer in the date format at position f of
\* formats.
TwoDigits(n) == <<Digit((n \div 10) % 10), Digit(n % 10)>>
FourDigits(n) == TwoDigits(n \div 100) \o TwoDigits(n % 100)
WriteDate(f, seconds) ==
  LET c == CivilFromDays(seconds \div SecondsPerDay)
      y == FourDigits(c.year)
      m == TwoDigits(c.month)
      d == TwoDigits(c.day)
  IN  Str(CASE f = 1 -> y \o <<45>> \o m \o <<45>> \o d
            [] f = 2 -> m \o <<47>> \o d \o <<47>> \o y
            [] f = 3 -> m \o <<47>> \o d \o <<47>> \o TwoDigits(c.year)
            [] f = 4 -> d \o <<45>> \o m \o <<45>> \o y
            [] f = 5 -> d \o <<46>> \o m \o <<46>> \o y
            [] f = 6 -> y \o <<47>> \o m \o <<47>> \o d)

\* "yesterday", and "2024-13-45"
S_yesterday == <<121, 101, 115, 116, 101, 114, 100, 97, 121>>
S_month13 == <<50, 48, 50, 52, 45, 49, 51, 45, 52, 53>>

\* Legacy records whose date is so many days away from their timestamp, in
\* each date format, and two whose date cannot be parsed.
DayOffsets == <<0 - 3, 0 - 2, 0, 2, 3>>

DateInputs(clock) ==
  [i \in 1..(Len(formats) * Len(DayOffsets) + 2) |->
     IF i > Len(formats) * Len(DayOffsets)
     THEN JsonText(PeerLegacy(Num(7200), Ms(clock),
                              Str(IF i = Len(formats) * Len(DayOffsets) + 1
                                  THEN S_yesterday ELSE S_month13)))
     ELSE LET f == ((i - 1) \div Len(DayOffsets)) + 1
              k == DayOffsets[((i - 1) % Len(DayOffsets)) + 1]
          IN  JsonText(PeerLegacy(Num(7200), Ms(clock),
                                  WriteDate(f, clock + k * SecondsPerDay)))]

\* Parsable records outside the compact and the legacy format: an unknown
\* structure, records of the hardware format (HardwareSubmissionData) stamped
\* now and seven hours ago, and a legacy record without monthlyUptime.
OtherInputs(clock) ==
  <<JsonText(Obj([foo |-> Num(1)])),
    JsonText(Obj([cpu |-> Str(S_cpu), timestamp |-> Ms(clock),
                  date |-> Str(<<>>)])),
    JsonText(Obj([memory |-> Num(16), timestamp |-> Ms(clock - 25200),
                  date |-> ISODate(clock)])),
    JsonText(Obj([uptime |-> Num(7200), timestamp |-> Ms(clock),
                  date |-> ISODate(clock)]))>>

\* Everything the validator is tried on.
ReceivedInputs(clock) ==
  AuditInputs(clock) \o LivenessInputs(clock) \o TimestampInputs(clock)
    \o StaticInputs(clock) \o DateInputs(clock) \o OtherInputs(clock)
      \o PlatformInputs(clock) \o RoundInputs(clock) \o StringInputs
      \o WalletInputs(clock)

\* The round number and submitter key handed along with it.
AuditArgs ==
  <<[roundNumber |-> Num(1), submitterKey |-> Str(S_submitter)],
    [roundNumber |-> Num(0 - 1), submitterKey |-> Str(S_submitter)],
    [roundNumber |-> Num(1), submitterKey |-> Undef]>>

\* audit(submission, round, submitter) of a submission received from a peer
AuditReceived ==
  /\ phase = "idle"
  /\ auditIn = NoAudit
  /\ \E i \in DOMAIN ReceivedInputs(now), a \in DOMAIN AuditArgs :
       LET input == ReceivedInputs(now)[i]
           args == AuditArgs[a]
       IN  /\ auditIn' = [input |-> input, roundNumber |-> args.roundNumber,
                          submitterKey |-> args.submitterKey, clock |-> now,
                          own |-> FALSE]
           /\ verdict' = audit(input, args.roundNumber, args.submitterKey, now)
  /\ UNCHANGED <<now, round, phase, hw, cacheFile, store, lastCheck, sent,
                 payload, owed,
                 distributed, healthData, uptimeStore, carried,
                 calls>>

\* The host moves on to the next round.
EndRound ==
  /\ phase = "audited"
  /\ \E i \in DOMAIN StartRounds : round - StartRounds[i] \in 0..(MaxRound - 1)
  /\ round' = round + 1
  /\ phase' = "idle"
  /\ lastCheck' = NotCalled
  /\ sent' = NotSent
  /\ payload' = Undef
  /\ auditIn' = NoAudit
  /\ verdict' = "none"
  /\ UNCHANGED <<now, hw, cacheFile, store, owed,
                 distributed, healthData, uptimeStore, carried,
                 calls>>

Next ==
  \/ Tick
  \/ HardwareChange
  \/ CacheCorrupted
  \/ Task
  \/ Submission
  \/ SubmissionUptime
  \/ AuditOwn
  \/ EndRound

Spec == Init /\ [][Next]_vars

\* A validator at work on what its peers hand it, while the clock advances.
NextAudit ==
  \/ Tick
  \/ AuditReceived

SpecAudit == Init /\ [][NextAudit]_vars

\* A submitter as the host hands it to distribution()
Submitter(publicKey, votes, stake) ==
  [publicKey |-> Str(publicKey), votes |-> votes, stake |-> stake]

\* The lists of submitters tried: none, one or several, with positive, zero
\* and negative vote counts, with a blank key (a space), and no list at all.
\* A stake is two tokens, or nothing.
SubmitterLists ==
  <<Obj(<<>>),
    Obj(<<Submitter(S_submitter, 1, 2000000)>>),
    Obj(<<Submitter(S_submitter, 0, 2000000)>>),
    Obj(<<Submitter(S_submitter, 0 - 1, 2000000)>>),
    Obj(<<Submitter(S_submitter, 5, 2000000),
          Submitter(Rep(67, 44), 0, 2000000),
          Submitter(Rep(68, 44), 0 - 2, 2000000)>>),
    Obj(<<Submitter(<<32>>, 1, 2000000)>>),
    Obj(<<Submitter(<<32>>, 1, 2000000),
          Submitter(S_submitter, 3, 2000000)>>),
    Obj(<<Submitter(S_submitter, 1, 2000000),
          Submitter(Rep(67, 44), 2, 0),
          Submitter(Rep(68, 44), 1, 2000000),
          Submitter(Rep(69, 44), 7, 2000000)>>),
    Undef>>

\* The bounty of the round: nothing, one token, three tokens, thirty
Bounties == <<0, TOKEN_DECIMALS, 3 * TOKEN_DECIMALS, 30 * TOKEN_DECIMALS>>

\* distribution(submitters, bounty, round)
Distribution ==
  /\ phase = "idle"
  /\ ~distributed.called
  /\ \E i \in DOMAIN SubmitterLists, b \in DOMAIN Bounties :
       LET out == distribution(SubmitterLists[i], Bounties[b], round,
                               healthData, now)
       IN  /\ distributed' = [called |-> TRUE, submitters |-> SubmitterLists[i],
                              bounty |-> Bounties[b], roundNumber |-> round,
                              list |-> out.list]
           /\ healthData' = out.health
  /\ UNCHANGED <<now, round, phase, hw, cacheFile, store, lastCheck, sent,
                 payload, auditIn, verdict, owed, uptimeStore, carried,
                 calls>>

\* The distribution at the end of a round, while the clock advances.
NextDistribution ==
  \/ Tick
  \/ Distribution

SpecDistribution == Init /\ [][NextDistribution]_vars

\* A node that has taken part in this many rounds before.
ParticipatedRounds == <<0, 1, 8759, 8760>>

InitUptime ==
  /\ now = T0
  /\ \E i \in DOMAIN StartRounds : round = StartRounds[i]
  /\ phase = "idle"
  /\ hw = BaseSnapshot
  /\ cacheFile = Undef
  /\ store = [taskSubmissionData |-> Undef, uptimeData |-> Undef]
  /\ lastCheck = NotCalled
  /\ sent = NotSent
  /\ payload = Undef
  /\ auditIn = NoAudit
  /\ verdict = "none"
  /\ owed = 0
  /\ distributed = NotDistributed
  /\ healthData = NewHealthData
  /\ \E i \in DOMAIN ParticipatedRounds :
       uptimeStore = IF ParticipatedRounds[i] = 0 THEN NewUptimeStore
                     ELSE UptimeStoreAfter(ParticipatedRounds[i])
  /\ carried = NothingCarried
  /\ calls = NoCalls

\* task(round), its liveness value taken from the tracker: recordUptime, then
\* getCurrentUptimeSeconds, then checkForStaticChanges and the stores.
TrackedTask ==
  /\ phase = "idle"
  /\ \E t \in DOMAIN TrackerFaults :
       LET tf == TrackerFaults[t]
           rec == recordUptime(uptimeStore, tf)
           uptime == getCurrentUptimeSeconds(rec.store, tf.getHours)
           check == checkForStaticChanges(hw, cacheFile, NoFaults, now)
           fault == IF rec.raised THEN "recordUptime" ELSE "none"
       IN  /\ uptimeStore' = rec.store
           /\ cacheFile' = IF rec.raised THEN cacheFile ELSE check.file
           /\ lastCheck' = IF rec.raised
                           THEN [NotCalled EXCEPT !.taskFault = fault]
                           ELSE [called |-> TRUE, before |-> cacheFile,
                                 after |-> check.file, current |-> hw,
                                 faults |-> NoFaults, taskFault |-> fault,
                                 result |-> check.result]
           /\ store' = TaskStore(store, IF rec.raised THEN Raised ELSE check.result,
                                 fault, FALSE, uptime, MonthlyUptimes[1],
                                 Wallets[1], now, round)
  /\ phase' = "tasked"
  /\ sent' = NotSent
  /\ payload' = Undef
  /\ auditIn' = NoAudit
  /\ verdict' = "none"
  /\ UNCHANGED <<now, round, hw, owed, distributed, healthData, carried,
                 calls>>

\* The liveness value in the dynamic block of a payload, undefined when the
\* payload has none.
CarriedLiveness(p) ==
  IF IsJsonText(p) THEN Get(Get(p.json, "d"), "u") ELSE Undef

\* submission(round) of a tracked round; the liveness value the payload
\* carries is remembered.
TrackedSubmission ==
  /\ phase = "tasked"
  /\ \E sf \in DOMAIN SubmissionFaults :
       /\ payload' = submission(round, store, SubmissionFaults[sf], now)
       /\ sent' = [encoder |-> "structured", fault |-> SubmissionFaults[sf]]
  /\ owed' = OwedAfter(payload')
  /\ carried' = IF TypeOf(CarriedLiveness(payload')) = "number"
                THEN [previous |-> carried.latest,
                      latest |-> CarriedLiveness(payload')]
                ELSE carried
  /\ phase' = "submitted"
  /\ UNCHANGED <<now, round, hw, cacheFile, store, lastCheck, auditIn, verdict,
                 distributed, healthData, uptimeStore,
                 calls>>

\* The rounds of one node whose liveness value comes from its tracker.
NextUptime ==
  \/ Tick
  \/ TrackedTask
  \/ TrackedSubmission
  \/ AuditOwn
  \/ EndRound

SpecUptime == InitUptime /\ [][NextUptime]_vars

\* checkForStaticChanges called on its own
CacheCheck ==
  /\ phase = "idle"
  /\ \E f \in DOMAIN CacheFaults :
       LET check == checkForStaticChanges(hw, cacheFile, CacheFaults[f], now)
       IN  /\ cacheFile' = check.file
           /\ lastCheck' = [called |-> TRUE, before |-> cacheFile,
                            after |-> check.file, current |-> hw,
                            faults |-> CacheFaults[f], taskFault |-> "none",
                            result |-> check.result]
  /\ UNCHANGED <<now, round, phase, hw, store, sent, payload, auditIn, verdict,
                 owed, distributed, healthData, uptimeStore, carried,
                 calls>>

\* saveCachedData(data) called with some snapshot; a failing write leaves
\* the file as it was.
CacheSave ==
  /\ phase = "idle"
  /\ \E i \in DOMAIN Snapshots, writeFails \in BOOLEAN :
       cacheFile' = IF writeFails THEN cacheFile
                    ELSE saveCachedData(Snapshots[i], now)
  /\ lastCheck' = NotCalled
  /\ UNCHANGED <<now, round, phase, hw, store, sent, payload, auditIn, verdict,
                 owed, distributed, healthData, uptimeStore, carried,
                 calls>>

\* forceRefresh()
ForceRefresh ==
  /\ phase = "idle"
  /\ \E f \in {1, 2, 4, 6} :
       cacheFile' = forceRefresh(hw, cacheFile, CacheFaults[f], now).file
  /\ lastCheck' = NotCalled
  /\ UNCHANGED <<now, round, phase, hw, store, sent, payload, auditIn, verdict,
                 owed, distributed, healthData, uptimeStore, carried,
                 calls>>

\* clearCache()
ClearCache ==
  /\ phase = "idle"
  /\ \E unlinkFails \in BOOLEAN :
       cacheFile' = clearCache(cacheFile, unlinkFails).file
  /\ lastCheck' = NotCalled
  /\ UNCHANGED <<now, round, phase, hw, store, sent, payload, auditIn, verdict,
                 owed, distributed, healthData, uptimeStore, carried,
                 calls>>

\* The cache manager's operations in any order, on a machine that changes.
NextCache ==
  \/ Tick
  \/ HardwareChange
  \/ CacheCheck
  \/ CacheSave
  \/ ForceRefresh
  \/ ClearCache

SpecCache == Init /\ [][NextCache]_vars

\* One of two overlapping calls of checkForStaticChanges reaches its first
\* await: the snapshot is collected and hashed.
Collect ==
  /\ phase = "idle"
  /\ \E c \in Callers :
       /\ calls[c].pc = "idle"
       /\ calls' = [calls EXCEPT ![c] = [@ EXCEPT !.pc = "collected",
                                                  !.current = hw]]
  /\ UNCHANGED <<now, round, phase, hw, cacheFile, store, lastCheck, sent,
                 payload, auditIn, verdict, owed, distributed, healthData,
                 uptimeStore, carried>>

\* The call reads the cache file.
Load ==
  /\ phase = "idle"
  /\ \E c \in Callers :
       /\ calls[c].pc = "collected"
       /\ calls' = [calls EXCEPT ![c] =
                      [@ EXCEPT !.pc = "loaded",
                                !.cached = loadCachedData(cacheFile, FALSE)]]
  /\ UNCHANGED <<now, round, phase, hw, cacheFile, store, lastCheck, sent,
                 payload, auditIn, verdict, owed, distributed, healthData,
                 uptimeStore, carried>>

\* The call compares what it collected with what it read, saves when it
\* sees a change, and returns.
Finish ==
  /\ phase = "idle"
  /\ \E c \in Callers :
       /\ calls[c].pc = "loaded"
       /\ LET mine == calls[c]
              out == IF ~Truthy(mine.cached)
                     THEN FirstRun(mine.current, cacheFile, NoFaults, now)
                     ELSE CompareHashes(mine.current, mine.cached, cacheFile,
                                        NoFaults, now)
          IN  /\ cacheFile' = out.file
              /\ calls' = [calls EXCEPT ![c] = [@ EXCEPT !.pc = "done",
                                                         !.result = out.result]]
  /\ UNCHANGED <<now, round, phase, hw, store, lastCheck, sent,
                 payload, auditIn, verdict, owed, distributed, healthData,
                 uptimeStore, carried>>

\* Two calls of checkForStaticChanges whose steps interleave, on a cache
\* that was filled before and a machine that changed since.
NextRace ==
  \/ Tick
  \/ (calls = NoCalls /\ ForceRefresh)
  \/ (calls = NoCalls /\ HardwareChange)
  \/ Collect
  \/ Load
  \/ Finish

SpecRace == Init /\ [][NextRace]_vars




-----------------------------------------------------------------------------
(* Properties                                                              *)

Sent == phase \in {"submitted", "audited"}

\* The round's task ran to its end: checkForStaticChanges was called and returned, and
\* no store operation failed.
PlainTask ==
  /\ lastCheck.called
  /\ ~lastCheck.result.raised
  /\ lastCheck.taskFault = "none"

\* The payload is the compact record of the structured encoder.
CompactPayload ==
  /\ sent.encoder = "structured"
  /\ IsJsonText(payload)
  /\ isOptimizedSubmission(payload.json) = "true"

\* The node's own payload was audited at the clock value it was stamped with.
AuditedAtSameClock ==
  /\ phase = "audited"
  /\ auditIn.own
  /\ Get(Get(payload.json, "m"), "t").v = auditIn.clock

ValidLiveness ==
  LET u == Get(Get(payload.json, "d"), "u").v
  IN  u >= 1 /\ u <= MaxUptimeSeconds

\* What task stored for the round
Stored == store.taskSubmissionData.json

\* The static facts of a stored round record lie within what the validator
\* accepts of a static block.
WithinValidatorBounds(static) ==
  LET ramType == Get(Get(static, "ram"), "type")
      totalMB == Get(Get(static, "ram"), "totalMB").v
      cores == Get(Get(static, "cpu"), "coresPhysical").v
      totalGB == Get(Get(static, "storage"), "totalGB").v
      deviceCount == Get(Get(static, "storage"), "deviceCount").v
      platform == Substring(Get(Get(static, "os"), "platform"), 10)
  IN  /\ Get(static, "wanIp").v \notin {<<>>, S_unknown}
      /\ Get(static, "lanIp").v \notin {<<>>, S_unknown}
      /\ ~TrimIsEmpty(Substring(Get(Get(static, "cpu"), "model"), 25))
      /\ cores >= 1 /\ cores <= 256
      /\ totalMB >= 512 /\ totalMB < 2097664
      /\ (Truthy(ramType) => ~TrimIsEmpty(Substring(ramType, 10)))
      /\ totalGB >= 1 /\ totalGB <= 100000
      /\ deviceCount >= 1 /\ deviceCount <= 20
      /\ \E i \in DOMAIN validOSTypes : Includes(platform, validOSTypes[i])
      /\ \E i \in DOMAIN validArchs :
           Get(Get(static, "system"), "arch").v = validArchs[i]
      /\ ~TrimIsEmpty(Substring(Get(Get(static, "system"), "hostname"), 20))

AcceptableInputs ==
  LET wallet == Get(Get(Stored, "metadata"), "nodeWallet")
      static == Get(Stored, "static")
  IN  /\ (StrictEq(wallet, Str(S_unknown)) \/ Length(wallet) >= 32)
      /\ Get(Get(Stored, "metadata"), "roundNumber").v <= MaxRoundNumber
      /\ (Truthy(static) => WithinValidatorBounds(static))

\* C1, as the specification states it: the compact payload that task() and
\* submission() produce, with or without a static block, is accepted by
\* audit() at the same clock value, for every valid liveness value and every
\* hardware snapshot.
C1_RoundTripAnySnapshot ==
  (PlainTask /\ CompactPayload /\ AuditedAtSameClock /\ ValidLiveness)
    => verdict = "true"

\* C1, corrected: the compact payload that task() and submission() produce is
\* accepted by audit() at the same clock value whenever the liveness value is
\* valid, the snapshot's static facts lie within the validator's bounds, the
\* wallet is 'unknown' or at least 32 characters long and the round number
\* is at most 1,000,000.
C1_RoundTripWithinBounds ==
  (PlainTask /\ CompactPayload /\ AuditedAtSameClock /\ ValidLiveness
     /\ AcceptableInputs)
    => verdict = "true"

C1_Witness ==
  /\ PlainTask /\ CompactPayload /\ AuditedAtSameClock /\ ValidLiveness
  /\ AcceptableInputs
  /\ HasStaticBlock(payload)
  /\ verdict = "true"

\* C2, as the specification states it: audit() returns exactly true or false
\* for every input, a non-string one included, and never throws.
C2_AuditAlwaysBoolean ==
  auditIn # NoAudit => verdict \in {"true", "false"}

IsErrorRecord(p) ==
  /\ IsJsonText(p)
  /\ Truthy(Get(p.json, "error"))
  /\ TypeOf(Get(p.json, "timestamp")) = "number"
  /\ Get(p.json, "d") = Undef
  /\ Get(p.json, "uptime") = Undef

IsUptimeRecord(p) ==
  /\ IsJsonText(p)
  /\ TypeOf(Get(p.json, "uptime")) = "number"
  /\ TypeOf(Get(p.json, "timestamp")) = "number"

HasDynamicAndMetadata(p) ==
  /\ IsJsonText(p)
  /\ TypeOf(Get(Get(p.json, "d"), "u")) = "number"
  /\ TypeOf(Get(Get(p.json, "m"), "sc")) = "boolean"
  /\ TypeOf(Get(Get(p.json, "m"), "t")) = "number"
  /\ TypeOf(Get(Get(p.json, "m"), "r")) = "number"

\* The structured encoder read the round record and its compact form fits.
CompactFormAvailable ==
  /\ sent.encoder = "structured"
  /\ sent.fault # "getTaskSubmissionData"
  /\ Truthy(store.taskSubmissionData)
  /\ Length(JSONstringify(createOptimizedSubmission(Stored))) <= MaxSubmissionLength

\* C4, as the specification states it: submission() never raises, returns a
\* string under every failure, and every string it returns carries a
\* liveness value.
C4_AlwaysCarriesLiveness ==
  Sent => (HasDynamicAndMetadata(payload) \/ IsUptimeRecord(payload))

\* C4, corrected: submission() never raises and returns a string under every
\* failure.  The string carries the dynamic block and the metadata block
\* when the round record was read and its compact form is at most 512
\* characters long; otherwise it is the stored uptime record or an error
\* record with a timestamp and no liveness value.
C4_StringUnderEveryFailure ==
  Sent =>
    /\ IsJsonText(payload)
    /\ IF CompactFormAvailable THEN HasDynamicAndMetadata(payload)
       ELSE IsUptimeRecord(payload) \/ IsErrorRecord(payload)

C4_Witness ==
  /\ Sent
  /\ sent = [encoder |-> "structured", fault |-> "getTaskSubmissionData"]
  /\ IsErrorRecord(payload)

\* The round's call of checkForStaticChanges ran with every step working.
CheckedWithoutFaults == lastCheck.called /\ lastCheck.faults = NoFaults

EntryBefore == loadCachedData(lastCheck.before, FALSE)
EntryAfter == loadCachedData(lastCheck.after, FALSE)

TotalMB(data) == Get(Get(data, "ram"), "totalMB")

\* C5, as the specification states it: with a 16 GB snapshot cached, a call
\* on a 32 GB snapshot reports a change, hands back the previous snapshot
\* and saves the fresh one.
C5_MemoryChangeReported ==
  (CheckedWithoutFaults /\ Truthy(EntryBefore)
     /\ TotalMB(Get(EntryBefore, "data")) = Num(16384)
     /\ TotalMB(lastCheck.current) = Num(32768))
    => /\ lastCheck.result.hasChanged
       /\ lastCheck.result.previousData = Get(EntryBefore, "data")
       /\ Get(EntryAfter, "data") = JsonValue(lastCheck.current)

\* C6: with an empty cache and every step working, the call reports a
\* change with the first-run reason, and the cache holds an entry for the
\* snapshot afterwards.
C6_FirstRun ==
  (CheckedWithoutFaults /\ lastCheck.before = Undef)
    => /\ ~lastCheck.result.raised
       /\ lastCheck.result.hasChanged
       /\ lastCheck.result.reason = "First run - no previous data"
       /\ Truthy(EntryAfter)
       /\ Get(EntryAfter, "data") = JsonValue(lastCheck.current)
       /\ Get(EntryAfter, "hash") = generateDataHash(lastCheck.current)

C6_Witness ==
  /\ phase = "tasked"
  /\ CheckedWithoutFaults
  /\ lastCheck.before = Undef
  /\ lastCheck.result.hasChanged
  /\ Truthy(EntryAfter)

\* C7: a call on the snapshot that the cache entry was saved for, with
\* every step working, reports no change and leaves the entry as it is.
C7_Idempotent ==
  (CheckedWithoutFaults /\ Truthy(EntryBefore)
     /\ Get(EntryBefore, "data") = JsonValue(lastCheck.current))
    => /\ ~lastCheck.result.raised
       /\ ~lastCheck.result.hasChanged
       /\ lastCheck.after = lastCheck.before

C7_Witness ==
  /\ phase = "tasked"
  /\ CheckedWithoutFaults
  /\ Truthy(EntryBefore)
  /\ Get(EntryBefore, "data") = JsonValue(lastCheck.current)
  /\ ~lastCheck.result.hasChanged

\* The call wrote, or tried to write, the cache file.
WriteAttempted ==
  \/ ~Truthy(loadCachedData(lastCheck.before, lastCheck.faults.read))
  \/ ~StrictEq(generateDataHash(lastCheck.current), Get(EntryBefore, "hash"))

\* A step of checkForStaticChanges failed.
StepFailed ==
  /\ lastCheck.called
  /\ \/ lastCheck.faults.probe
     \/ lastCheck.faults.hash
     \/ lastCheck.faults.read
     \/ (lastCheck.faults.write /\ WriteAttempted)

\* The failure reached the catch block (a failed read does not: it is
\* answered inside loadCachedData).
HandlerReached ==
  /\ lastCheck.called
  /\ \/ lastCheck.faults.probe
     \/ lastCheck.faults.hash
     \/ (lastCheck.faults.write /\ WriteAttempted)

WithStaticBlock(data, snapshot) ==
  Obj([dynamic |-> Get(data, "dynamic"),
       static |-> StaticOf(snapshot),
       metadata |-> Obj([Get(data, "metadata").v EXCEPT
                           !.staticChanged = Bool(TRUE)])])

\* A round in which nothing failed and the static block would fit.
CleanRound ==
  /\ phase = "submitted"
  /\ PlainTask
  /\ lastCheck.faults = NoFaults
  /\ sent = [encoder |-> "structured", fault |-> "none"]
  /\ Length(JSONstringify(createOptimizedSubmission(
              JsonValue(WithStaticBlock(Stored, lastCheck.current)))))
       <= MaxSubmissionLength

\* C9, as the specification states it, on finite runs: a static block that
\* was due and did not go out goes out in a later round without a further
\* hardware change; at the latest in the first round in which nothing fails
\* and the block fits, so that after such a round none is due.
C9_DroppedBlockGoesOutLater ==
  CleanRound => owed = 0

Disagree(data) ==
  Truthy(Get(Get(data, "m"), "sc")) # Truthy(Get(data, "s"))

\* C10: audit() rejects a record of the compact format whose flag sc and
\* static block disagree (flag set without a block, block without the flag).
C10_FlagAndBlockAgree ==
  (auditIn # NoAudit /\ IsJsonText(auditIn.input)
     /\ isOptimizedSubmission(auditIn.input.json) = "true"
     /\ Disagree(auditIn.input.json))
    => verdict = "false"

C10_Witness ==
  /\ auditIn # NoAudit
  /\ auditIn.roundNumber = Num(1)
  /\ auditIn.submitterKey = Str(S_submitter)
  /\ IsJsonText(auditIn.input)
  /\ isOptimizedSubmission(auditIn.input.json) = "true"
  /\ Truthy(Get(auditIn.input.json, "s"))
  /\ ~Truthy(Get(Get(auditIn.input.json, "m"), "sc"))
  /\ verdict = "false"

-----------------------------------------------------------------------------
\* The compact record that went out
Emitted == payload.json

FlagSet(data) == StrictEq(Get(Get(data, "m"), "sc"), Bool(TRUE))

\* C11: in every compact payload the structured encoder emits, the flag
\* m.sc is true exactly when the static block s is present, and the block is
\* present only when the stored round record says that the static facts
\* changed (and, when the round's task ran to its end, only when
\* checkForStaticChanges reported a change).
C11_FlagMatchesBlock ==
  (Sent /\ CompactPayload) =>
    /\ FlagSet(Emitted) <=> HasStaticBlock(payload)
    /\ HasStaticBlock(payload) =>
         /\ StrictEq(Get(Get(Stored, "metadata"), "staticChanged"), Bool(TRUE))
         /\ Truthy(Get(Stored, "static"))
    /\ (PlainTask /\ HasStaticBlock(payload)) => lastCheck.result.hasChanged

C11_Witness ==
  /\ Sent
  /\ CompactPayload
  /\ PlainTask
  /\ lastCheck.result.hasChanged
  /\ HasStaticBlock(payload)
  /\ FlagSet(Emitted)

-----------------------------------------------------------------------------
\* A parsed record of the compact or of the legacy format was audited with
\* arguments that pass audit's own tests.
AuditedRecord ==
  /\ auditIn # NoAudit
  /\ IsJsonText(auditIn.input)
  /\ LessThan(auditIn.roundNumber, 0) = FALSE
  /\ TypeOf(auditIn.roundNumber) = "number"
  /\ Truthy(auditIn.submitterKey)

Received == auditIn.input.json

IsCompact(data) == isOptimizedSubmission(data) = "true"
IsLegacy(data) == isOptimizedSubmission(data) = "false" /\ isUptimeSubmission(data)

\* The liveness value of a record of either format
LivenessOf(data) ==
  IF IsCompact(data) THEN Get(Get(data, "d"), "u").v ELSE Get(data, "uptime").v

\* The record with another liveness value
WithLiveness(data, u) ==
  IF IsCompact(data)
  THEN Obj([data.v EXCEPT !.d = Obj([u |-> Num(u)])])
  ELSE Obj([data.v EXCEPT !.uptime = Num(u)])

\* C12: in the compact and in the legacy format, audit() rejects a record
\* whose liveness value is 0, negative or above 31,536,000, and accepts a
\* record with liveness 1 (and with 31,536,000) whenever it accepts the same
\* record with a liveness value in between.
C12_LivenessBounds ==
  (AuditedRecord /\ (IsCompact(Received) \/ IsLegacy(Received))) =>
    /\ (LivenessOf(Received) <= 0 \/ LivenessOf(Received) > 31536000)
         => verdict = "false"
    /\ (/\ LivenessOf(Received) \in {1, 31536000}
        /\ audit(JsonText(WithLiveness(Received, 7200)), auditIn.roundNumber,
                 auditIn.submitterKey, auditIn.clock) = "true")
         => verdict = "true"

C12_Witness ==
  /\ AuditedRecord
  /\ IsLegacy(Received)
  /\ LivenessOf(Received) = 1
  /\ audit(JsonText(WithLiveness(Received, 0)), auditIn.roundNumber,
           auditIn.submitterKey, auditIn.clock) = "false"
  /\ verdict = "true"

-----------------------------------------------------------------------------
\* The timestamp of a record of either format
TimestampOf(data) ==
  IF IsCompact(data) THEN Get(Get(data, "m"), "t").v ELSE Get(data, "timestamp").v

\* The record with another timestamp
WithTimestamp(data, t) ==
  IF IsCompact(data)
  THEN Obj([data.v EXCEPT !.m = Obj([Get(data, "m").v EXCEPT !.t = Ms(t)])])
  ELSE Obj([data.v EXCEPT !.timestamp = Ms(t)])

SixHours == 6 * 60 * 60

\* The record passes every test other than the six-hour window: audit()
\* accepts it when it is stamped with the validator's clock, and the date of
\* a legacy record agrees with the timestamp the record carries.
OtherwiseValid ==
  /\ audit(JsonText(WithTimestamp(Received, auditIn.clock)), auditIn.roundNumber,
           auditIn.submitterKey, auditIn.clock) = "true"
  /\ IsLegacy(Received) =>
       isDateConsistentWithTimestamp(Get(Received, "date"), TimestampOf(Received))

\* C13: the timestamp window is symmetric.  In both formats a record stamped
\* more than six hours before or after the validator's clock is rejected,
\* and an otherwise valid record stamped at most six hours before or after
\* it is accepted.
C13_SymmetricWindow ==
  (AuditedRecord /\ (IsCompact(Received) \/ IsLegacy(Received))) =>
    LET t == TimestampOf(Received)
        clock == auditIn.clock
    IN  /\ (t < clock - SixHours \/ t > clock + SixHours) => verdict = "false"
        /\ (t >= clock - SixHours /\ t <= clock + SixHours /\ OtherwiseValid)
             => verdict = "true"

C13_Witness ==
  /\ AuditedRecord
  /\ IsCompact(Received)
  /\ TimestampOf(Received) = auditIn.clock + SixHours + 1
  /\ OtherwiseValid
  /\ verdict = "false"

-----------------------------------------------------------------------------
\* A number within lo..hi
NumberWithin(x, lo, hi) == x.t = "number" /\ x.v >= lo /\ x.v <= hi

\* C14, as the specification states it: a record with a static block is
\* accepted only if each numeric subfield of the block is present and within
\* its range: core count 1..256, memory size 1..2048, storage size
\* 1..100000, device count 1..20.
C14_StaticRanges ==
  (AuditedRecord /\ IsCompact(Received) /\ Truthy(Get(Received, "s"))
     /\ verdict = "true")
    => LET s == Get(Received, "s")
       IN  /\ NumberWithin(Get(s, "cp"), 1, 256)
           /\ NumberWithin(Get(s, "r"), 1, 2048)
           /\ NumberWithin(Get(s, "st"), 1, 100000)
           /\ NumberWithin(Get(s, "sd"), 1, 20)

-----------------------------------------------------------------------------
\* The date of the record is the day so many days after its timestamp's day,
\* written in one of the recognised formats.
DateIsDaysAway(data, k) ==
  \E f \in DOMAIN formats :
    Get(data, "date") = WriteDate(f, TimestampOf(data) + k * SecondsPerDay)

TwoDays == 2 * 24 * 60 * 60

-----------------------------------------------------------------------------
\* The payload is a compact record with a dynamic block, no static block and
\* the flag false.
DynamicOnly ==
  /\ CompactPayload
  /\ ~HasStaticBlock(payload)
  /\ StrictEq(Get(Get(Emitted, "m"), "sc"), Bool(FALSE))
  /\ TypeOf(Get(Get(Emitted, "d"), "u")) = "number"

\* The structured encoder ran without a failure of its own.
EncodedPlainly ==
  /\ Sent
  /\ sent = [encoder |-> "structured", fault |-> "none"]

\* C16, as the specification states it: when the collection of the hardware
\* facts fails in a round, task() does not raise and the round yields a
\* dynamic-only payload: flag false, no static block, dynamic block present.
C16_DynamicOnlyWhenCollectionFails ==
  (EncodedPlainly /\ lastCheck.called /\ lastCheck.faults.probe) => DynamicOnly

\* C16, amended: when the collection fails and so does the repeated
\* collection in the catch block of checkForStaticChanges, the call raises,
\* task() stores its fallback record, and the round yields a dynamic-only
\* payload whose liveness value is 0.  When the repeated collection succeeds,
\* the round's payload carries the flag true and the static block.
C16_DynamicOnlyWhenCollectionFailsTwice ==
  /\ (EncodedPlainly /\ lastCheck.called /\ lastCheck.result.raised)
       => (DynamicOnly /\ Get(Get(Emitted, "d"), "u") = Num(0))
  /\ (EncodedPlainly /\ lastCheck.called /\ lastCheck.faults.probe
        /\ ~lastCheck.faults.probeRetry /\ CompactPayload)
       => (HasStaticBlock(payload) /\ FlagSet(Emitted))

C16_Witness ==
  /\ EncodedPlainly
  /\ lastCheck.called
  /\ lastCheck.faults.probe
  /\ lastCheck.faults.probeRetry
  /\ lastCheck.result.raised
  /\ DynamicOnly
  /\ Get(Get(Emitted, "d"), "u") = Num(0)

-----------------------------------------------------------------------------
\* The submitters that were handed to distribution() with a usable key
Listed ==
  IF distributed.submitters.t = "undefined" THEN <<>>
  ELSE validSubmitters(distributed.submitters.v)

\* Three tokens, in thousands of base units
ThreeTokens == 3000000

\* C17, as stated: distribution() assigns exactly three tokens to every
\* submitter with votes > 0 and 0 to every other submitter, whatever the
\* number of submitters and the bounty; no submitter loses stake (no amount
\* is negative).
C17_ThreeTokensOrNothing ==
  distributed.called =>
    \A i \in DOMAIN Listed :
      LET key == Listed[i].publicKey
      IN  /\ key \in DOMAIN distributed.list
          /\ distributed.list[key] = IF Listed[i].votes > 0 THEN ThreeTokens ELSE 0

-----------------------------------------------------------------------------
\* C18, as the specification states it: a payload that parses as structured
\* data and matches neither the compact schema predicate nor the legacy one
\* is rejected by audit().
C18_UnknownSchemaRejected ==
  (AuditedRecord /\ ~IsCompact(Received) /\ ~isUptimeSubmission(Received))
    => verdict = "false"

-----------------------------------------------------------------------------
\* The compact record of what task stored, static block and sender address
\* included, is longer than the limit.
Overflow ==
  /\ Truthy(store.taskSubmissionData)
  /\ Truthy(Get(Stored, "static"))
  /\ Length(JSONstringify(createOptimizedSubmission(Stored))) > MaxSubmissionLength

\* C19, as the specification states it: on overflow the encoder goes down
\* the ladder (drop the sender address; shorten the string-valued static
\* fields further; as the last step drop the static block and set the flag
\* to false), so that what it emits is a compact record without a sender
\* address that either still carries its static block or carries the flag
\* false.
C19_LadderOnOverflow ==
  (EncodedPlainly /\ Overflow) =>
    /\ CompactPayload
    /\ ~Truthy(Get(Emitted, "w"))
    /\ HasStaticBlock(payload) \/ StrictEq(Get(Get(Emitted, "m"), "sc"), Bool(FALSE))

-----------------------------------------------------------------------------
\* Two snapshots agree in every static fact; they may differ in the fields
\* that change without a change of hardware (WAN and LAN address, boot
\* uptime, swap size).
SameStaticFacts(a, b) ==
  /\ \A group \in {"cpu", "ram", "storage", "gpu", "os", "network"} :
       Get(a, group) = Get(b, group)
  /\ Get(Get(a, "system"), "arch") = Get(Get(b, "system"), "arch")
  /\ Get(Get(a, "system"), "hostname") = Get(Get(b, "system"), "hostname")

\* C20: the hash of change detection does not depend on the volatile fields.
\* Two snapshots that agree in every static fact have the same hash, and a
\* call on a snapshot that differs from the cached one in volatile fields
\* only, with every step working, reports hasChanged = false and leaves the
\* cache as it is.
C20_VolatileFieldsIgnored ==
  /\ \A i, j \in DOMAIN Snapshots :
       SameStaticFacts(Snapshots[i], Snapshots[j])
         => generateDataHash(Snapshots[i]) = generateDataHash(Snapshots[j])
  /\ (CheckedWithoutFaults /\ Truthy(EntryBefore)
        /\ SameStaticFacts(Get(EntryBefore, "data"), JsonValue(lastCheck.current)))
       => /\ Get(EntryBefore, "hash") = generateDataHash(lastCheck.current)
          /\ ~lastCheck.result.raised
          /\ ~lastCheck.result.hasChanged
          /\ lastCheck.after = lastCheck.before

C20_Witness ==
  /\ phase = "tasked"
  /\ CheckedWithoutFaults
  /\ Truthy(EntryBefore)
  /\ SameStaticFacts(Get(EntryBefore, "data"), JsonValue(lastCheck.current))
  /\ Get(Get(EntryBefore, "data"), "wanIp") # Get(lastCheck.current, "wanIp")
  /\ Get(Get(Get(EntryBefore, "data"), "system"), "bootUptimeSeconds")
       # Get(Get(lastCheck.current, "system"), "bootUptimeSeconds")
  /\ ~lastCheck.result.hasChanged

-----------------------------------------------------------------------------
(* A cache file that cannot be used                                        *)

\* What made the last check start without a prior entry.
CacheMissing == lastCheck.before = Undef
CacheUnreadable == lastCheck.before # Undef /\ lastCheck.faults.read
CacheUnparsable == lastCheck.before # Undef /\ ~IsJsonText(lastCheck.before)

\* Collecting, hashing and writing all worked in the last check.
OtherStepsWork ==
  ~lastCheck.faults.probe /\ ~lastCheck.faults.hash /\ ~lastCheck.faults.write

\* C21: a cache file that is missing, unreadable or not JSON is no prior
\* state: the checkForStaticChanges that meets it does not raise, reports hasChanged = true
\* without previous data, and leaves an entry holding the fresh snapshot.
C21_UnusableCacheIsNoPriorState ==
  (/\ lastCheck.called
   /\ CacheMissing \/ CacheUnreadable \/ CacheUnparsable
   /\ OtherStepsWork)
    => /\ loadCachedData(lastCheck.before, lastCheck.faults.read) = Null
       /\ ~lastCheck.result.raised
       /\ lastCheck.result.hasChanged
       /\ lastCheck.result.previousData = Undef
       /\ IsJsonText(lastCheck.after)
       /\ Get(EntryAfter, "data") = JsonValue(lastCheck.current)
       /\ Get(EntryAfter, "hash") = generateDataHash(lastCheck.current)

C21_Witness ==
  /\ lastCheck.called
  /\ CacheUnparsable
  /\ OtherStepsWork
  /\ lastCheck.result.hasChanged
  /\ Get(EntryAfter, "data") = JsonValue(lastCheck.current)

-----------------------------------------------------------------------------
(* Platform and architecture of a static block                             *)

StaticBlockOf(data) == Get(data, "s")
CarriesStaticBlock(data) == IsCompact(data) /\ TypeOf(StaticBlockOf(data)) = "object"

KnownPlatform(o) == \E i \in DOMAIN validOSTypes : o.v = validOSTypes[i]
KnownArch(a) == \E i \in DOMAIN validArchs : a.v = validArchs[i]

\* C22: a record with a static block is accepted only if its platform is one
\* of Linux, macOS, Windows and its architecture is one of x64, arm64, ia32,
\* arm, s390x, ppc64.
C22_PlatformAndArchKnown ==
  (AuditedRecord /\ CarriesStaticBlock(Received) /\ verdict = "true")
    => /\ KnownPlatform(Get(StaticBlockOf(Received), "o"))
       /\ KnownArch(Get(StaticBlockOf(Received), "a"))

\* An accepted static block names a known architecture.
AcceptedArchKnown ==
  (AuditedRecord /\ CarriesStaticBlock(Received) /\ verdict = "true")
    => KnownArch(Get(StaticBlockOf(Received), "a"))

\* An accepted static block has a platform that contains a known name.
AcceptedPlatformContainsKnown ==
  (AuditedRecord /\ CarriesStaticBlock(Received) /\ verdict = "true")
    => \E i \in DOMAIN validOSTypes :
         Includes(Get(StaticBlockOf(Received), "o"), validOSTypes[i])

-----------------------------------------------------------------------------
(* The round number a record carries                                       *)

\* The round number of a record: m.r in the compact format, the roundNumber
\* field elsewhere.
RoundOf(data) ==
  IF IsCompact(data) THEN Get(Get(data, "m"), "r") ELSE Get(data, "roundNumber")

RoundOutOfBounds(data) ==
  /\ RoundOf(data).t = "number"
  /\ RoundOf(data).v < 0 \/ RoundOf(data).v > MaxRoundNumber

\* C23: a record whose own round number is negative or above 1,000,000 is
\* rejected, in whichever format it is classified.
C23_RoundBoundInEveryFormat ==
  (AuditedRecord /\ RoundOutOfBounds(Received)) => verdict = "false"

\* The same bound for records of the compact format only.
CompactRoundBound ==
  (AuditedRecord /\ IsCompact(Received) /\ RoundOutOfBounds(Received))
    => verdict = "false"

CompactRoundBoundReached ==
  /\ AuditedRecord /\ IsCompact(Received)
  /\ RoundOf(Received) = Num(1000000)
  /\ verdict = "true"

-----------------------------------------------------------------------------
(* Strings that are not JSON                                               *)

\* The validator was handed a non-empty string that JSON.parse rejects, or
\* the empty string.
UnparsableReceived ==
  /\ auditIn # NoAudit
  /\ TypeOf(auditIn.input) = "string"
  /\ ~IsJsonText(auditIn.input)

ValidArguments ==
  /\ TypeOf(auditIn.roundNumber) = "number"
  /\ ~LessThan(auditIn.roundNumber, 0)
  /\ Truthy(auditIn.submitterKey)
  /\ TypeOf(auditIn.submitterKey) = "string"

\* C24: a string that is not JSON is accepted only if it is exactly
\* "Hello, World!"; every other such string is rejected, the empty one, one
\* of blanks only and one of more than 512 characters included.
C24_OnlySentinelAccepted ==
  UnparsableReceived =>
    /\ auditIn.input.v # S_HelloWorld => verdict = "false"
    /\ (auditIn.input.v = S_HelloWorld /\ ValidArguments) => verdict = "true"

C24_Witness ==
  /\ UnparsableReceived
  /\ Len(auditIn.input.v) > MaxSubmissionLength
  /\ ValidArguments
  /\ verdict = "false"

-----------------------------------------------------------------------------
(* The liveness value over the rounds of a node                            *)

BothCarried ==
  TypeOf(carried.previous) = "number" /\ TypeOf(carried.latest) = "number"

\* C25: across the successive rounds of one node the liveness value in the
\* dynamic block of its payloads never decreases, whatever path a round takes.
C25_LivenessNeverDecreases ==
  BothCarried => carried.latest.v >= carried.previous.v

\* A round whose recordUptime raised sent the fallback record, liveness 0,
\* after a round that carried a positive liveness value.
LivenessDropsOnFallback ==
  /\ phase = "submitted"
  /\ lastCheck.taskFault = "recordUptime"
  /\ BothCarried
  /\ carried.previous.v > 0
  /\ carried.latest = Num(0)

-----------------------------------------------------------------------------
(* The tracker's liveness value against the validator's bound              *)

\* What the tracker reports once it has recorded a round
Reported == getCurrentUptimeSeconds(uptimeStore, FALSE)
HasRecorded == Truthy(uptimeStore.total_uptime_hours)

\* C30: however many rounds the node has taken part in, the liveness value
\* the tracker reports after recordUptime passes the validator's liveness
\* test 0 < u <= 31,536,000.
C30_TrackerLivenessAcceptable ==
  HasRecorded => ~InvalidUptime(Reported)

\* Up to 8760 recorded rounds the reported value passes the test.
AcceptableWithinAYear ==
  (HasRecorded /\ getTotalUptimeHours(uptimeStore, FALSE) <= 8760)
    => ~InvalidUptime(Reported)

\* The payload of round 8761, nothing having failed, is rejected.
RejectedAfterAYear ==
  /\ phase = "audited"
  /\ lastCheck.called
  /\ sent.fault = "none"
  /\ CarriedLiveness(payload) = Num(8761 * 3600)
  /\ Reported = 8761 * 3600
  /\ verdict = "false"

-----------------------------------------------------------------------------
(* Error records before the validator                                      *)

\* The node's own payload has been audited.
OwnAudited == phase = "audited" /\ auditIn # NoAudit /\ auditIn.own

\* C29: a payload of submission() that carries an error field and no
\* liveness value is rejected by audit(); so is the record submission()
\* returns for a negative round number.
C29_ErrorRecordRejected ==
  /\ (OwnAudited /\ IsErrorRecord(payload)) => verdict = "false"
  /\ LET refused == submission(0 - 1, store, SubmissionFaults[1], now)
     IN  /\ IsErrorRecord(refused)
         /\ audit(refused, Num(round), Str(S_submitter), now) = "false"

C29_Witness ==
  /\ OwnAudited
  /\ IsErrorRecord(payload)
  /\ Get(payload.json, "error") = Str(S_NoDataAvailable)
  /\ auditIn.clock = Get(payload.json, "timestamp").v
  /\ verdict = "false"

\* The error record of the handler of last resort is audited as well.
LastResortRecordAudited ==
  /\ OwnAudited
  /\ IsErrorRecord(payload)
  /\ Get(payload.json, "error") = Str(S_SubmissionFunctionError)
  /\ verdict = "false"

-----------------------------------------------------------------------------
(* The round and the sender the validator is asked about                   *)

\* Round numbers and submitter keys that pass the argument checks of audit()
AskedRounds == <<0, 1, 7, 1000000, 2000000>>
AskedKeys == <<Str(S_submitter), Str(Rep(67, 44)), Str(<<120>>)>>

\* The verdict on the received submission at the clock of its audit, had
\* the validator been asked about round r and sender k
VerdictFor(r, k) == audit(auditIn.input, Num(AskedRounds[r]), AskedKeys[k], auditIn.clock)

\* C28: for a fixed submission and clock, audit() gives the same verdict for
\* any two non-negative round numbers and any two non-empty submitter keys.
C28_VerdictIgnoresRoundAndSender ==
  auditIn # NoAudit =>
    LET first == VerdictFor(1, 1)
    IN  \A r \in DOMAIN AskedRounds, k \in DOMAIN AskedKeys :
          VerdictFor(r, k) = first

\* A record of round 7 with a wallet of its own, accepted when the validator
\* asked about round 1 and another sender.
C28_Witness ==
  /\ AuditedRecord
  /\ IsCompact(Received)
  /\ Get(Get(Received, "m"), "r") = Num(7)
  /\ auditIn.roundNumber = Num(1)
  /\ Get(Received, "w") = Str(Rep(67, 44))
  /\ auditIn.submitterKey = Str(S_submitter)
  /\ verdict = "true"
  /\ VerdictFor(3, 2) = "true"

-----------------------------------------------------------------------------
(* The cache entry under the manager's operations                          *)

CacheEntry == loadCachedData(cacheFile, FALSE)

\* The file is what one saveCachedData wrote: data, hash and timestamp of a
\* single call.
WrittenWhole ==
  /\ IsJsonText(cacheFile)
  /\ TypeOf(Get(CacheEntry, "data")) = "object"
  /\ TypeOf(Get(CacheEntry, "hash")) = "string"
  /\ TypeOf(Get(CacheEntry, "timestamp")) = "number"
  /\ \E i \in DOMAIN Snapshots :
       cacheFile = saveCachedData(Snapshots[i], Get(CacheEntry, "timestamp").v)

\* C26: under checkForStaticChanges, saveCachedData, forceRefresh and
\* clearCache in any order the cache file is absent or is one whole entry
\* whose hash is the hash of the snapshot in that entry, and a
\* checkForStaticChanges that finds the hash equal leaves the file as it was.
C26_AbsentOrWholeEntry ==
  /\ \/ cacheFile = Undef
     \/ /\ WrittenWhole
        /\ StrictEq(Get(CacheEntry, "hash"),
                    generateDataHash(Get(CacheEntry, "data")))
  /\ (lastCheck.called /\ ~lastCheck.result.raised /\ ~lastCheck.result.hasChanged)
       => /\ lastCheck.after = lastCheck.before
          /\ cacheFile = lastCheck.before

\* An entry written for one snapshot is still there, whole, after a check on
\* another snapshot found the hash equal.
C26_Witness ==
  /\ lastCheck.called
  /\ ~lastCheck.result.hasChanged
  /\ WrittenWhole
  /\ Get(CacheEntry, "data") # JsonValue(lastCheck.current)
  /\ Get(CacheEntry, "timestamp").v < now

-----------------------------------------------------------------------------
(* Two checks at once                                                      *)

BothReturned == \A c \in Callers : calls[c].pc = "done"

\* Both calls collected the same snapshot, and a call read an entry that
\* holds another one.
FreshDiffersFromCached ==
  /\ calls[1].current = calls[2].current
  /\ \E c \in Callers :
       /\ Truthy(calls[c].cached)
       /\ Get(calls[c].cached, "data") # JsonValue(calls[c].current)

\* C27: when two calls of checkForStaticChanges interleave while the fresh
\* snapshot differs from the cached one, one of them at least reports
\* hasChanged = true and the cache ends holding the fresh snapshot.
C27_ChangeNotLostToRace ==
  (BothReturned /\ FreshDiffersFromCached)
    => /\ \E c \in Callers : calls[c].result.hasChanged
       /\ Get(CacheEntry, "data") = JsonValue(calls[1].current)

\* On a cache that is absent both calls report a change and the fresh
\* snapshot is stored.
BothFirstRuns ==
  (BothReturned /\ \A c \in Callers : ~Truthy(calls[c].cached)
     /\ calls[1].current = calls[2].current)
    => /\ \A c \in Callers : calls[c].result.hasChanged
       /\ Get(CacheEntry, "data") = JsonValue(calls[1].current)

====
